---- MODULE Spec2Model ----
(***************************************************************************)
(* Model of the TOPA reference implementation (delano/topa):               *)
(*   - core/token_budget.py : TokenBudget (estimate, consume, truncate)    *)
(*   - core/encoder.py, core/encoder_v3.py : the two encoders              *)
(*   - parsers/*.py : the JUnit, TAP, pytest and RSpec parsers             *)
(* Texts are sequences of one-character strings.  An Optional value is a   *)
(* sequence: None is the empty one, Some(v) holds the value.               *)
(***************************************************************************)
EXTENDS Integers, Sequences, FiniteSets, TLC

VARIABLES
    limit,          \* TokenBudget.limit
    consumed,       \* TokenBudget.consumed
    call,           \* the last TokenBudget call: [op, text, max_tokens, ret, before]
    encoder,        \* which encoder was constructed: "v1" (TOPAEncoder), "v3" (TOPAV3Encoder)
    focus_mode,     \* the encoder's focus_mode
    parsed_data,    \* the ParsedTestData handed to encode
    process,        \* what the encoder's process sees: argv, environ, pip, git
    output,         \* the output tree returned by encode
    parser,         \* which parser was constructed
    defusedxml,     \* whether the defusedxml package is installed
    content,        \* the content handed to parse, as the parser reads it
    input_format,   \* what detect_format returned, or the exception it raised
    parse_result,   \* what parse returned, or the exception it raised
    instances,      \* the attributes of each parser instance shared by threads
    threads         \* per thread its parse call: instance, lines, position, locals, result

budgetVars == <<limit, consumed, call>>
encoderVars == <<encoder, focus_mode, parsed_data, process, output>>
concurrentVars == <<instances, threads>>
parserVars == <<parser, defusedxml, content, input_format, parse_result,
               instances, threads>>
vars == <<limit, consumed, call, encoder, focus_mode, parsed_data, process,
          output,
          parser, defusedxml, content, input_format, parse_result,
          instances, threads>>

None == << >>
Some(v) == <<v>>
TheValue(o) == o[1]

----
(* ---------------------------- bounds ----------------------------------- *)
MaxTextLen == 26        \* longest text handed to the TokenBudget operations
MaxTokensArg == 8       \* largest explicit max_tokens argument
MaxConsumed == 62       \* cap on the consumed counter in the budget runs
MaxFiles == 2           \* most file results in a ParsedTestData
MaxTests == 2           \* most test results in a ParsedFileResult
MaxLines == 3           \* most lines in a content handed to a parser
LongFieldLen == 124     \* length of a long name, message or value of a result

(* ------------------------ program constants ---------------------------- *)
CHARS_PER_TOKEN == 4
YAML_OVERHEAD == 50

----
(* ------------------------------ texts ---------------------------------- *)
Min(a, b) == IF a < b THEN a ELSE b
Max(a, b) == IF a > b THEN a ELSE b

Whitespace == {" ", "\n"}

\* the periodic text of length n over the word w
Text(w, n) == [i \in 1..n |-> w[((i - 1) % Len(w)) + 1]]

Words ==
    { <<"a">>,
      <<":">>,
      <<" ">>,
      <<"a", "b", "c", " ">>,
      <<"a", "b", ".", " ", "c", "d", "e">>,
      <<" ", "a", "-", "b", "\n">> }

Texts == { Text(w, n) : w \in Words, n \in 0..MaxTextLen }

\* str.strip(): drop leading and trailing whitespace
Strip(t) ==
    LET keep == { i \in DOMAIN t : t[i] \notin Whitespace }
    IN  IF keep = {} THEN << >>
        ELSE LET lo == CHOOSE i \in keep : \A j \in keep : i <= j
                 hi == CHOOSE i \in keep : \A j \in keep : i >= j
             IN  SubSeq(t, lo, hi)

\* str.count(ch) for a one-character ch
Count(t, ch) == Cardinality({ i \in DOMAIN t : t[i] = ch })

\* str.rfind(ch): 0-based index of the last occurrence, -1 when absent
RFind(t, ch) ==
    LET at == { i \in DOMAIN t : t[i] = ch }
    IN  IF at = {} THEN -1
        ELSE (CHOOSE i \in at : \A j \in at : i >= j) - 1

\* text[:n] for n >= 0
Prefix(t, n) == SubSeq(t, 1, Min(Len(t), n))

Ellipsis == <<".", ".", ".">>

----
(* --------------------------- TokenBudget ------------------------------- *)

\* TokenBudget.remaining
remaining(lim, cons) == Max(0, lim - cons)

\* TokenBudget.used_percentage > pct, in exact arithmetic
\* ((consumed / limit) * 100 if limit > 0 else 0) > pct
used_percentage_over(lim, cons, pct) ==
    IF lim > 0 THEN 100 * cons > pct * lim ELSE 0 > pct

\* TokenBudget.has_budget()
has_budget(lim, cons) == remaining(lim, cons) > 0

\* TokenBudget.has_budget(tokens)
has_budget_for(lim, cons, tokens) == remaining(lim, cons) >= tokens

\* TokenBudget.estimate_tokens: int((char_count + yaml_chars * 0.5) / 4),
\* floored at 1 for a non-empty text
estimate_tokens(t) ==
    IF Len(t) = 0 THEN 0
    ELSE LET char_count == Len(Strip(t))
             yaml_chars == Count(t, ":") + Count(t, "-") + Count(t, "\n")
         IN  Max(1, (2 * char_count + yaml_chars) \div (2 * CHARS_PER_TOKEN))

\* TokenBudget.would_exceed
would_exceed(lim, cons, t) == cons + estimate_tokens(t) > lim

\* variant: the ellipsis is appended without reserving its three characters
truncate_no_reserve(t, target_chars) ==
    IF Len(t) <= target_chars THEN t
    ELSE IF target_chars < 20
         THEN Prefix(t, Max(0, target_chars)) \o Ellipsis
    ELSE LET truncated0 == Prefix(t, target_chars)
             last_space == RFind(truncated0, " ")
             truncated1 == IF last_space > target_chars \div 2
                           THEN Prefix(truncated0, last_space)
                           ELSE truncated0
             last_period == RFind(truncated1, ".")
         IN  IF last_period > target_chars \div 2
             THEN Prefix(truncated1, last_period + 1)
             ELSE truncated1 \o Ellipsis

\* TokenBudget._truncate_intelligently
truncate_intelligently(t, target_chars) ==
    IF Len(t) <= target_chars THEN t
    ELSE IF target_chars < 20
         THEN Prefix(t, Max(0, target_chars - 3)) \o Ellipsis
    ELSE LET truncated0 == Prefix(t, target_chars - 3)
             last_space == RFind(truncated0, " ")
             truncated1 == IF last_space > target_chars \div 2
                           THEN Prefix(truncated0, last_space)
                           ELSE truncated0
             last_period == RFind(truncated1, ".")
         IN  IF last_period > target_chars \div 2
             THEN Prefix(truncated1, last_period + 1)
             ELSE truncated1 \o Ellipsis

\* int(token_limit * CHARS_PER_TOKEN * 0.8)
target_chars_of(token_limit) == (token_limit * CHARS_PER_TOKEN * 8) \div 10

\* variant: the minimum-meaningful-length threshold is 5 characters, not 10
smart_truncate_low_threshold(lim, cons, t, max_tokens) ==
    IF Len(t) = 0 THEN t
    ELSE LET token_limit == IF max_tokens # None THEN TheValue(max_tokens)
                            ELSE remaining(lim, cons)
         IN  IF token_limit <= 0 THEN << >>
             ELSE IF estimate_tokens(t) <= token_limit THEN t
             ELSE IF target_chars_of(token_limit) < 5 THEN << >>
             ELSE truncate_intelligently(t, target_chars_of(token_limit))

\* TokenBudget.smart_truncate(text, max_tokens); max_tokens = None uses the
\* remaining budget
smart_truncate(lim, cons, t, max_tokens) ==
    IF Len(t) = 0 THEN t
    ELSE LET token_limit == IF max_tokens # None THEN TheValue(max_tokens)
                            ELSE remaining(lim, cons)
         IN  IF token_limit <= 0 THEN << >>
             ELSE IF estimate_tokens(t) <= token_limit THEN t
             ELSE IF target_chars_of(token_limit) < 10 THEN << >>
             ELSE truncate_intelligently(t, target_chars_of(token_limit))

----
(* ------------------ TokenBudget as a state machine --------------------- *)
BudgetLimits == {0, 52, 55, 60}

\* no encoder is involved
NoOutput == [status |-> "none"]
NoData == [total_tests |-> 0, passed_tests |-> 0, failed_tests |-> 0,
           error_tests |-> 0, total_files |-> 0, elapsed_time |-> None,
           file_results |-> << >>]
NoProcess == [command |-> << >>, pid |-> 0, environ |-> << >>,
              pip |-> << >>, git |-> << >>, project_type |-> <<"generic">>]
EncoderIdle ==
    /\ encoder = "none"
    /\ focus_mode = "none"
    /\ parsed_data = NoData
    /\ process = NoProcess
    /\ output = NoOutput

\* no parser at work
ParserIdle ==
    /\ parser = "none"
    /\ defusedxml = FALSE
    /\ content = [lines |-> << >>]
    /\ input_format = [status |-> "none"]
    /\ parse_result = [status |-> "none"]
    /\ instances = << >>
    /\ threads = << >>

NoCall == [op |-> "none", text |-> << >>, max_tokens |-> None,
           ret |-> 0, before |-> YAML_OVERHEAD]

\* TokenBudget(limit): __post_init__ reserves the structural overhead
InitBudget ==
    /\ limit \in BudgetLimits
    /\ consumed = YAML_OVERHEAD
    /\ call = NoCall
    /\ EncoderIdle
    /\ ParserIdle

\* variant: a text that would exceed the limit is not charged
consume_within_limit(t) ==
    /\ consumed + estimate_tokens(t) <= MaxConsumed
    /\ consumed' = IF would_exceed(limit, consumed, t) THEN consumed
                   ELSE consumed + estimate_tokens(t)
    /\ call' = [op |-> "consume", text |-> t, max_tokens |-> None,
                ret |-> estimate_tokens(t), before |-> consumed]
    /\ UNCHANGED <<limit, encoderVars, parserVars>>

\* TokenBudget.consume(text)
consume(t) ==
    /\ consumed + estimate_tokens(t) <= MaxConsumed
    /\ consumed' = consumed + estimate_tokens(t)
    /\ call' = [op |-> "consume", text |-> t, max_tokens |-> None,
                ret |-> estimate_tokens(t), before |-> consumed]
    /\ UNCHANGED <<limit, encoderVars, parserVars>>

\* TokenBudget.force_consume(text): delegates to consume
force_consume(t) ==
    /\ consumed + estimate_tokens(t) <= MaxConsumed
    /\ consumed' = consumed + estimate_tokens(t)
    /\ call' = [op |-> "force_consume", text |-> t, max_tokens |-> None,
                ret |-> estimate_tokens(t), before |-> consumed]
    /\ UNCHANGED <<limit, encoderVars, parserVars>>

ConsumeTexts == { t \in Texts : Len(t) <= 8 }

NextBudget ==
    \/ \E t \in ConsumeTexts : consume(t)
    \/ \E t \in ConsumeTexts : force_consume(t)

SpecBudget == InitBudget /\ [][NextBudget]_vars

----
(* ------------- smart_truncate applied to every bounded input ----------- *)
MaxTokensArgs == { Some(m) : m \in -1..MaxTokensArg } \cup {None}

\* a fresh budget and the arguments of one smart_truncate call
InitTruncate ==
    /\ limit \in BudgetLimits
    /\ consumed = YAML_OVERHEAD
    /\ \E t \in Texts, m \in MaxTokensArgs :
          call = [op |-> "args", text |-> t, max_tokens |-> m,
                  ret |-> 0, before |-> YAML_OVERHEAD]
    /\ EncoderIdle
    /\ ParserIdle

\* the call of TokenBudget.smart_truncate; it does not touch the counter
SmartTruncate ==
    /\ call.op = "args"
    /\ call' = [call EXCEPT !.op = "smart_truncate",
                             !.ret = smart_truncate(limit, consumed,
                                                    call.text, call.max_tokens)]
    /\ UNCHANGED <<limit, consumed, encoderVars, parserVars>>

NextTruncate == SmartTruncate

SpecTruncate == InitTruncate /\ [][NextTruncate]_vars

----
(* ------------------------------ schema --------------------------------- *)

\* ParsedTestResult.is_error
is_error(t) == ~t.passed /\ t.error_message # None

\* ParsedTestResult.is_failure
is_failure(t) == ~t.passed /\ t.error_message = None

\* the test "not t.passed" of the encoders' list comprehensions
not_passed(t) == ~t.passed

\* ParsedFileResult.has_issues
has_issues(f) == \E i \in DOMAIN f.test_results : ~f.test_results[i].passed

\* ParsedFileResult.failure_count
failure_count(f) ==
    Cardinality({ i \in DOMAIN f.test_results :
                    ~f.test_results[i].passed
                    /\ f.test_results[i].error_message = None })

\* ParsedFileResult.error_count
error_count(f) ==
    Cardinality({ i \in DOMAIN f.test_results :
                    f.test_results[i].error_message # None })

\* ParsedTestData.overall_status
overall_status(d) ==
    IF d.error_tests > 0 THEN "ERROR"
    ELSE IF d.failed_tests > 0 THEN "FAIL"
    ELSE "PASS"

\* ParsedTestData.files_with_failures
files_with_failures(d) ==
    Cardinality({ i \in DOMAIN d.file_results : has_issues(d.file_results[i]) })

----
(* --------------------------- path normalizer --------------------------- *)
Unknown == <<"u", "n", "k", "n", "o", "w", "n">>

\* the working directory Path.cwd() of the run
Cwd == <<"w">>

\* the components of a path string between "/" separators
RECURSIVE SplitSlash(_, _, _)
SplitSlash(p, cur, acc) ==
    IF p = << >> THEN Append(acc, cur)
    ELSE IF Head(p) = "/" THEN SplitSlash(Tail(p), << >>, Append(acc, cur))
    ELSE SplitSlash(Tail(p), Append(cur, Head(p)), acc)

is_component(c) == c # << >> /\ c # <<".">>

\* pathlib: the named components of Path(p), "." and empty ones dropped
PathNames(p) == SelectSeq(SplitSlash(p, << >>, << >>), is_component)

\* Path(p).is_absolute()
is_absolute(p) == Len(p) > 0 /\ p[1] = "/"

RECURSIVE JoinSlash(_)
JoinSlash(names) ==
    IF names = << >> THEN << >>
    ELSE IF Len(names) = 1 THEN names[1]
    ELSE names[1] \o <<"/">> \o JoinSlash(Tail(names))

\* str(Path(p))
PathStr(p) ==
    IF is_absolute(p) THEN <<"/">> \o JoinSlash(PathNames(p))
    ELSE IF PathNames(p) = << >> THEN <<".">>
    ELSE JoinSlash(PathNames(p))

\* Path(p).name
PathName(p) ==
    IF PathNames(p) = << >> THEN << >>
    ELSE PathNames(p)[Len(PathNames(p))]

\* pattern in text
Contains(t, pat) ==
    \E i \in 1..(Len(t) - Len(pat) + 1) : SubSeq(t, i, i + Len(pat) - 1) = pat

SuspiciousPatterns ==
    { <<".", ".", "/">>,
      <<"/", "e", "t", "c", "/">>,
      <<"/", "p", "r", "o", "c", "/">>,
      <<"/", "s", "y", "s", "/">> }

\* len(Path(p).parts): the root "/" of an absolute path is a part
NumParts(p) == Len(PathNames(p)) + (IF is_absolute(p) THEN 1 ELSE 0)

\* "/".join(parts[-2:]) when len(parts) > 3
LastTwoParts(p) ==
    LET names == PathNames(p)
    IN  JoinSlash(SubSeq(names, Len(names) - 1, Len(names)))

\* path.relative_to(Path.cwd()) succeeds
under_cwd(p) ==
    /\ is_absolute(p)
    /\ Len(PathNames(p)) >= 1
    /\ PathNames(p)[1] = Cwd

\* TOPAEncoder._normalize_path / TOPAV3Encoder._normalize_path
normalize_path(p) ==
    IF Len(p) = 0 THEN Unknown
    ELSE IF \E pat \in SuspiciousPatterns : Contains(PathStr(p), pat)
         THEN (IF PathName(p) # << >> THEN PathName(p) ELSE Unknown)
    ELSE IF ~is_absolute(p) /\ Len(PathStr(p)) < 50 THEN PathStr(p)
    ELSE IF under_cwd(p)
            /\ Len(PathStr(JoinSlash(Tail(PathNames(p))))) < Len(p)
         THEN PathStr(JoinSlash(Tail(PathNames(p))))
    ELSE IF NumParts(p) > 3 THEN LastTwoParts(p)
    ELSE IF Len(PathStr(p)) > 60 THEN PathName(p)
    ELSE PathStr(p)

----
(* --------------------------- encoder, v0.1 ----------------------------- *)
UnknownError == Unknown \o <<" ", "e", "r", "r", "o", "r">>

\* "x or default" for an Optional[str]
OrText(o, default) ==
    IF o # None /\ TheValue(o) # << >> THEN TheValue(o) ELSE default

\* "test.line or 0"
LineOrZero(t) == IF t.line # None THEN TheValue(t.line) ELSE 0

\* text.split("\n")[0]
FirstLine(t) ==
    LET nl == { i \in DOMAIN t : t[i] = "\n" }
    IN  IF nl = {} THEN t
        ELSE SubSeq(t, 1, (CHOOSE i \in nl : \A j \in nl : i <= j) - 1)

\* TOPAEncoder._generate_simple_diff
generate_simple_diff(lim, cons, expected, actual) ==
    IF ~has_budget_for(lim, cons, 50) THEN None
    ELSE LET diff_text == <<"-", " ">> \o FirstLine(actual) \o <<"\n">>
                          \o <<"+", " ">> \o FirstLine(expected)
         IN  IF ~would_exceed(lim, cons, diff_text) THEN Some(diff_text)
             ELSE None

\* the truncation applied to an Optional[str] field that is not None
TruncatedField(lim, cons, o, max_tokens) ==
    IF o # None THEN Some(smart_truncate(lim, cons, TheValue(o), Some(max_tokens)))
    ELSE None

\* TOPAEncoder._build_test_result
build_test_result(lim, cons, test) ==
    IF is_error(test)
    THEN [line |-> LineOrZero(test),
          name |-> smart_truncate(lim, cons, test.name, Some(30)),
          type |-> "error",
          error |-> Some(smart_truncate(lim, cons,
                           OrText(test.error_message, UnknownError), Some(50))),
          expected |-> None, actual |-> None, diff |-> None]
    ELSE [line |-> LineOrZero(test),
          name |-> smart_truncate(lim, cons, test.name, Some(30)),
          type |-> "failure",
          error |-> None,
          expected |-> TruncatedField(lim, cons, test.expected, 25),
          actual |-> TruncatedField(lim, cons, test.actual, 25),
          diff |-> IF /\ remaining(lim, cons) > 100
                      /\ test.expected # None /\ TheValue(test.expected) # << >>
                      /\ test.actual # None /\ TheValue(test.actual) # << >>
                   THEN generate_simple_diff(lim, cons, TheValue(test.expected),
                                             TheValue(test.actual))
                   ELSE None]

\* the TestResult built inline by _build_critical_failures (name not truncated)
critical_test_result(lim, cons, test) ==
    [line |-> LineOrZero(test),
     name |-> test.name,
     type |-> "error",
     error |-> Some(smart_truncate(lim, cons,
                      OrText(test.error_message, UnknownError), Some(50))),
     expected |-> None, actual |-> None, diff |-> None]

\* TOPAEncoder._build_files_with_issues: the loop over file_results
RECURSIVE build_files_with_issues(_, _, _, _)
build_files_with_issues(lim, cons, files, acc) ==
    IF files = << >> THEN acc
    ELSE LET f == Head(files)
         IN  IF has_issues(f)
             THEN LET acc2 == Append(acc,
                          [file |-> normalize_path(f.file_path),
                           issues |-> failure_count(f) + error_count(f)])
                  IN  IF ~has_budget(lim, cons) THEN acc2
                      ELSE build_files_with_issues(lim, cons, Tail(files), acc2)
             ELSE build_files_with_issues(lim, cons, Tail(files), acc)

\* the loop over error_tests in _build_critical_failures
RECURSIVE critical_tests_loop(_, _, _, _)
critical_tests_loop(lim, cons, tests, acc) ==
    IF tests = << >> THEN acc
    ELSE LET acc2 == Append(acc, critical_test_result(lim, cons, Head(tests)))
         IN  IF ~has_budget(lim, cons) THEN acc2
             ELSE critical_tests_loop(lim, cons, Tail(tests), acc2)

\* variant: every non-passed result is taken for an error
RECURSIVE build_critical_failures_all_failed(_, _, _, _)
build_critical_failures_all_failed(lim, cons, files, acc) ==
    IF files = << >> THEN acc
    ELSE LET f == Head(files)
             error_tests == SelectSeq(f.test_results, not_passed)
         IN  IF error_tests # << >>
             THEN LET test_results ==
                          critical_tests_loop(lim, cons, error_tests, << >>)
                      acc2 == IF test_results # << >>
                              THEN Append(acc,
                                     [file |-> normalize_path(f.file_path),
                                      tests |-> test_results,
                                      truncated |-> None])
                              ELSE acc
                  IN  IF ~has_budget(lim, cons) THEN acc2
                      ELSE build_critical_failures_all_failed(
                               lim, cons, Tail(files), acc2)
             ELSE build_critical_failures_all_failed(lim, cons, Tail(files), acc)

\* TOPAEncoder._build_critical_failures: the loop over file_results
RECURSIVE build_critical_failures(_, _, _, _)
build_critical_failures(lim, cons, files, acc) ==
    IF files = << >> THEN acc
    ELSE LET f == Head(files)
             error_tests == SelectSeq(f.test_results, is_error)
         IN  IF error_tests # << >>
             THEN LET test_results ==
                          critical_tests_loop(lim, cons, error_tests, << >>)
                      acc2 == IF test_results # << >>
                              THEN Append(acc,
                                     [file |-> normalize_path(f.file_path),
                                      tests |-> test_results,
                                      truncated |-> None])
                              ELSE acc
                  IN  IF ~has_budget(lim, cons) THEN acc2
                      ELSE build_critical_failures(lim, cons, Tail(files), acc2)
             ELSE build_critical_failures(lim, cons, Tail(files), acc)

\* variant: the elided count is the number of non-passed results
RECURSIVE build_first_failure_details_counting_all(_, _, _, _)
build_first_failure_details_counting_all(lim, cons, files, acc) ==
    IF files = << >> THEN acc
    ELSE LET f == Head(files)
             failed_tests == SelectSeq(f.test_results, not_passed)
         IN  IF failed_tests # << >>
             THEN LET acc2 == Append(acc,
                          [file |-> normalize_path(f.file_path),
                           tests |-> <<build_test_result(lim, cons,
                                                         failed_tests[1])>>,
                           truncated |-> IF Len(failed_tests) > 1
                                         THEN Some(Len(failed_tests))
                                         ELSE None])
                  IN  IF ~has_budget(lim, cons) THEN acc2
                      ELSE build_first_failure_details_counting_all(
                               lim, cons, Tail(files), acc2)
             ELSE build_first_failure_details_counting_all(
                      lim, cons, Tail(files), acc)

\* TOPAEncoder._build_first_failure_details: the loop over file_results
RECURSIVE build_first_failure_details(_, _, _, _)
build_first_failure_details(lim, cons, files, acc) ==
    IF files = << >> THEN acc
    ELSE LET f == Head(files)
             failed_tests == SelectSeq(f.test_results, not_passed)
         IN  IF failed_tests # << >>
             THEN LET acc2 == Append(acc,
                          [file |-> normalize_path(f.file_path),
                           tests |-> <<build_test_result(lim, cons,
                                                         failed_tests[1])>>,
                           truncated |-> IF Len(failed_tests) > 1
                                         THEN Some(Len(failed_tests) - 1)
                                         ELSE None])
                  IN  IF ~has_budget(lim, cons) THEN acc2
                      ELSE build_first_failure_details(lim, cons, Tail(files),
                                                       acc2)
             ELSE build_first_failure_details(lim, cons, Tail(files), acc)

\* the loop over error_tests + failure_tests in _build_all_failure_details
RECURSIVE all_tests_loop(_, _, _, _)
all_tests_loop(lim, cons, tests, acc) ==
    IF tests = << >> THEN acc
    ELSE LET acc2 == Append(acc, build_test_result(lim, cons, Head(tests)))
         IN  IF used_percentage_over(lim, cons, 80) THEN acc2
             ELSE all_tests_loop(lim, cons, Tail(tests), acc2)

\* variant: the non-passed results are emitted in discovery order
RECURSIVE build_all_failure_details_discovery_order(_, _, _, _)
build_all_failure_details_discovery_order(lim, cons, files, acc) ==
    IF files = << >> THEN acc
    ELSE LET f == Head(files)
             failed_tests == SelectSeq(f.test_results, not_passed)
         IN  IF failed_tests # << >>
             THEN LET test_results ==
                          all_tests_loop(lim, cons, failed_tests, << >>)
                      acc2 == IF test_results # << >>
                              THEN Append(acc,
                                     [file |-> normalize_path(f.file_path),
                                      tests |-> test_results,
                                      truncated |-> None])
                              ELSE acc
                  IN  IF ~has_budget(lim, cons) THEN acc2
                      ELSE build_all_failure_details_discovery_order(
                               lim, cons, Tail(files), acc2)
             ELSE build_all_failure_details_discovery_order(
                      lim, cons, Tail(files), acc)

\* TOPAEncoder._build_all_failure_details: the loop over file_results
RECURSIVE build_all_failure_details(_, _, _, _)
build_all_failure_details(lim, cons, files, acc) ==
    IF files = << >> THEN acc
    ELSE LET f == Head(files)
             failed_tests == SelectSeq(f.test_results, not_passed)
             error_tests == SelectSeq(failed_tests, is_error)
             failure_tests == SelectSeq(failed_tests, is_failure)
         IN  IF failed_tests # << >>
             THEN LET test_results ==
                          all_tests_loop(lim, cons, error_tests \o failure_tests,
                                         << >>)
                      acc2 == IF test_results # << >>
                              THEN Append(acc,
                                     [file |-> normalize_path(f.file_path),
                                      tests |-> test_results,
                                      truncated |-> None])
                              ELSE acc
                  IN  IF ~has_budget(lim, cons) THEN acc2
                      ELSE build_all_failure_details(lim, cons, Tail(files), acc2)
             ELSE build_all_failure_details(lim, cons, Tail(files), acc)

\* TOPAEncoder._build_summary
build_summary(d) ==
    [status |-> overall_status(d),
     tests |-> [total |-> d.total_tests, passed |-> d.passed_tests,
                failed |-> d.failed_tests, errors |-> d.error_tests],
     files |-> [total |-> d.total_files,
                with_failures |-> files_with_failures(d)],
     elapsed |-> d.elapsed_time]

\* TOPAEncoder.encode, with TOPAOutput.to_dict
encode_v1(lim, cons, mode, d) ==
    [status |-> "ok",
     version |-> "0.1",
     summary |-> build_summary(d),
     files_with_issues |->
        IF mode = "summary"
        THEN Some(build_files_with_issues(lim, cons, d.file_results, << >>))
        ELSE None,
     failures |->
        IF mode = "summary" THEN None
        ELSE IF mode = "critical"
             THEN Some(build_critical_failures(lim, cons, d.file_results, << >>))
        ELSE IF mode = "first-failure"
             THEN Some(build_first_failure_details(lim, cons, d.file_results,
                                                   << >>))
        ELSE Some(build_all_failure_details(lim, cons, d.file_results, << >>))]

----
(* --------------------------- encoder, v0.3 ----------------------------- *)
ErrorOccurred == <<"e", "r", "r", "o", "r", " ", "o", "c", "c", "u", "r", "r", "e", "d">>
TestFailed == <<"t", "e", "s", "t", " ", "f", "a", "i", "l", "e", "d">>
ExecutionContextKey ==
    <<"E", "X", "E", "C", "U", "T", "I", "O", "N", "_",
      "C", "O", "N", "T", "E", "X", "T">>
SummaryKey == <<"S", "u", "m", "m", "a", "r", "y">>
FilesKey == <<"F", "i", "l", "e", "s">>

\* d[key] = value on an insertion-ordered dict, kept as a sequence of
\* [key, value] entries: an existing key keeps its place and gets the new value
DictPut(d, key, value) ==
    IF \E i \in DOMAIN d : d[i].key = key
    THEN [i \in DOMAIN d |-> IF d[i].key = key
                             THEN [key |-> key, value |-> value] ELSE d[i]]
    ELSE Append(d, [key |-> key, value |-> value])

\* the V3FailureResult built in TOPAV3Encoder._build_failures
v3_failure(test) ==
    [line |-> LineOrZero(test),
     description |-> IF is_error(test) THEN ErrorOccurred ELSE TestFailed,
     test_name |-> test.name,
     expected |-> test.expected,
     actual |-> test.actual]

\* the loop over failed_tests in TOPAV3Encoder._build_failures
RECURSIVE v3_tests_loop(_, _, _, _)
v3_tests_loop(lim, cons, tests, acc) ==
    IF tests = << >> THEN acc
    ELSE LET acc2 == Append(acc, v3_failure(Head(tests)))
         IN  IF ~has_budget(lim, cons) THEN acc2
             ELSE v3_tests_loop(lim, cons, Tail(tests), acc2)

\* TOPAV3Encoder._build_failures: the loop over file_results
RECURSIVE build_failures_v3(_, _, _, _, _)
build_failures_v3(lim, cons, mode, files, acc) ==
    IF files = << >> THEN acc
    ELSE LET f == Head(files)
             failed_tests == SelectSeq(f.test_results, not_passed)
             selected == IF mode = "critical"
                         THEN SelectSeq(failed_tests, is_error)
                         ELSE IF mode = "first-failure"
                         THEN SubSeq(failed_tests, 1, Min(1, Len(failed_tests)))
                         ELSE failed_tests
         IN  IF selected = << >>
             THEN build_failures_v3(lim, cons, mode, Tail(files), acc)
             ELSE LET v3_failures == v3_tests_loop(lim, cons, selected, << >>)
                      acc2 == IF v3_failures # << >>
                              THEN DictPut(acc, normalize_path(f.file_path),
                                           v3_failures)
                              ELSE acc
                  IN  IF ~has_budget(lim, cons) THEN acc2
                      ELSE build_failures_v3(lim, cons, mode, Tail(files), acc2)

\* TOPAV3Encoder._build_file_issues: the loop over file_results; the issue
\* string "<n> failed, <m> errors" is kept as its two counts
RECURSIVE build_file_issues_v3(_, _, _, _)
build_file_issues_v3(lim, cons, files, acc) ==
    IF files = << >> THEN acc
    ELSE LET f == Head(files)
         IN  IF has_issues(f)
             THEN LET acc2 == DictPut(acc, normalize_path(f.file_path),
                                      [failed |-> failure_count(f),
                                       errors |-> error_count(f)])
                  IN  IF ~has_budget(lim, cons) THEN acc2
                      ELSE build_file_issues_v3(lim, cons, Tail(files), acc2)
             ELSE build_file_issues_v3(lim, cons, Tail(files), acc)

\* TOPAV3Encoder._build_summary_line, kept as the counts it prints
build_summary_line(d) ==
    [passed |-> d.passed_tests, failed |-> d.failed_tests,
     errors |-> d.error_tests, files |-> d.total_files]

\* FLAG_MAPPINGS and ENVIRONMENT_MAPPINGS (the entries the inputs reach), in
\* the order sorted() and the dict iteration give
FLAG_MAPPINGS ==
    [debug |-> {<<"-", "d">>}, quiet |-> {<<"-", "q">>},
     verbose |-> {<<"-", "v">>}]
SortedFlags == <<"debug", "quiet", "verbose">>
ENVIRONMENT_MAPPINGS ==
    [CI |-> <<"CI", "GITHUB_ACTIONS">>, ENV |-> <<"NODE_ENV">>]
EnvironmentKeys == <<"CI", "ENV">>

DictHas(d, key) == \E i \in DOMAIN d : d[i].key = key
DictGet(d, key) == d[CHOOSE i \in DOMAIN d : d[i].key = key].value

\* normalize_flags: the standard terms of the raw flags, sorted
normalize_flags(raw_flags) ==
    SelectSeq(SortedFlags,
              LAMBDA f : \E i \in DOMAIN raw_flags : raw_flags[i] \in FLAG_MAPPINGS[f])

\* normalize_environment_variables: per standard key the value of the first
\* of its variables that is set
normalize_environment_variables(env_dict) ==
    LET found == SelectSeq(EnvironmentKeys,
                    LAMBDA t : \E i \in DOMAIN ENVIRONMENT_MAPPINGS[t] :
                                   DictHas(env_dict, ENVIRONMENT_MAPPINGS[t][i]))
        first_set(t) ==
            ENVIRONMENT_MAPPINGS[t][
                CHOOSE i \in DOMAIN ENVIRONMENT_MAPPINGS[t] :
                    /\ DictHas(env_dict, ENVIRONMENT_MAPPINGS[t][i])
                    /\ \A j \in 1..(i - 1) :
                           ~DictHas(env_dict, ENVIRONMENT_MAPPINGS[t][j])]
    IN  [i \in DOMAIN found |->
            [key |-> found[i], value |-> DictGet(env_dict, first_set(found[i]))]]

\* TOPAV3Encoder._detect_environment
detect_environment(environ) ==
    LET normalized == normalize_environment_variables(environ)
    IN  IF normalized # << >> THEN Some(normalized) ELSE None

\* TOPAV3Encoder._detect_flags: the words of the command that start with "-"
detect_flags(command_words) ==
    IF command_words = << >> THEN None
    ELSE LET raw_flags == SelectSeq(command_words,
                                    LAMBDA w : w # << >> /\ w[1] = "-")
         IN  IF raw_flags = << >> THEN None
             ELSE IF normalize_flags(raw_flags) # << >>
                  THEN Some(normalize_flags(raw_flags)) ELSE None

\* TOPAV3Encoder._build_execution_context in a process proc: its command
\* line, its os.environ, and what pip, git and the working directory answer
build_execution_context(lim, mode, d, proc) ==
    [command |-> proc.command,
     pid |-> proc.pid,
     runtime |-> "python",
     test_framework |-> "tpane (isolated)",
     files_under_test |-> d.total_files,
     protocol |-> [focus |-> mode, limit |-> lim],
     package_manager |-> proc.pip,
     vcs |-> proc.git,
     environment |-> detect_environment(proc.environ),
     flags |-> detect_flags(proc.command),
     project_type |-> Some(proc.project_type)]

\* sep.join(items) on texts
RECURSIVE JoinWith(_, _)
JoinWith(sep, items) ==
    IF items = << >> THEN << >>
    ELSE IF Len(items) = 1 THEN items[1]
    ELSE items[1] \o sep \o JoinWith(sep, Tail(items))

\* "if self.field:" on an optional text, list or dict
Truthy(opt) == opt # None /\ TheValue(opt) # << >>

\* ExecutionContext.to_dict storing vcs whether or not it has a value
ExecutionContext_to_dict_storing_unset_vcs(c) ==
    LET required == <<[key |-> "command", value |-> c.command],
                      [key |-> "pid", value |-> c.pid],
                      [key |-> "runtime", value |-> c.runtime],
                      [key |-> "test_framework", value |-> c.test_framework],
                      [key |-> "protocol", value |-> c.protocol],
                      [key |-> "files_under_test", value |-> c.files_under_test]>>
        with_pm == IF Truthy(c.package_manager)
                   THEN DictPut(required, "package_manager",
                                TheValue(c.package_manager))
                   ELSE required
        with_vcs == DictPut(with_pm, "vcs", c.vcs)
        with_env == IF Truthy(c.environment)
                    THEN DictPut(with_vcs, "environment",
                            JoinWith(<<", ">>,
                                [i \in DOMAIN TheValue(c.environment) |->
                                    <<TheValue(c.environment)[i].key, "=">>
                                    \o TheValue(c.environment)[i].value]))
                    ELSE with_vcs
        with_flags == IF Truthy(c.flags)
                      THEN DictPut(with_env, "flags",
                              JoinWith(<<", ">>,
                                  [i \in DOMAIN TheValue(c.flags) |->
                                      <<TheValue(c.flags)[i]>>]))
                      ELSE with_env
    IN  IF Truthy(c.project_type)
        THEN DictPut(with_flags, "project_type", TheValue(c.project_type))
        ELSE with_flags

\* ExecutionContext.to_dict
ExecutionContext_to_dict(c) ==
    LET required == <<[key |-> "command", value |-> c.command],
                      [key |-> "pid", value |-> c.pid],
                      [key |-> "runtime", value |-> c.runtime],
                      [key |-> "test_framework", value |-> c.test_framework],
                      [key |-> "protocol", value |-> c.protocol],
                      [key |-> "files_under_test", value |-> c.files_under_test]>>
        with_pm == IF Truthy(c.package_manager)
                   THEN DictPut(required, "package_manager",
                                TheValue(c.package_manager))
                   ELSE required
        with_vcs == IF Truthy(c.vcs)
                    THEN DictPut(with_pm, "vcs", TheValue(c.vcs))
                    ELSE with_pm
        with_env == IF Truthy(c.environment)
                    THEN DictPut(with_vcs, "environment",
                            JoinWith(<<", ">>,
                                [i \in DOMAIN TheValue(c.environment) |->
                                    <<TheValue(c.environment)[i].key, "=">>
                                    \o TheValue(c.environment)[i].value]))
                    ELSE with_vcs
        with_flags == IF Truthy(c.flags)
                      THEN DictPut(with_env, "flags",
                              JoinWith(<<", ">>,
                                  [i \in DOMAIN TheValue(c.flags) |->
                                      <<TheValue(c.flags)[i]>>]))
                      ELSE with_env
    IN  IF Truthy(c.project_type)
        THEN DictPut(with_flags, "project_type", TheValue(c.project_type))
        ELSE with_flags

\* the loop "for file_path, file_failures in self.failures.items()" of
\* TOPAV3Output.to_dict
RECURSIVE put_failures(_, _)
put_failures(result, failures) ==
    IF failures = << >> THEN result
    ELSE put_failures(DictPut(result, Head(failures).key,
                              [kind |-> "failures",
                               tests |-> Head(failures).value]),
                      Tail(failures))

\* TOPAV3Encoder.encode, with TOPAV3Output.to_dict
encode_v3(lim, cons, mode, d, proc) ==
    LET context == <<[key |-> ExecutionContextKey,
                      value |-> [kind |-> "context",
                                 context |-> ExecutionContext_to_dict(
                                     build_execution_context(lim, mode, d, proc))]]>>
    IN  [status |-> "ok",
         version |-> "0.3",
         tree |->
            IF mode = "summary"
            THEN LET file_issues ==
                         build_file_issues_v3(lim, cons, d.file_results, << >>)
                     with_summary ==
                         DictPut(context, SummaryKey,
                                 [kind |-> "summary_line",
                                  line |-> build_summary_line(d)])
                 IN  IF file_issues # << >>
                     THEN DictPut(with_summary, FilesKey,
                                  [kind |-> "files", files |-> file_issues])
                     ELSE with_summary
            ELSE put_failures(context,
                              build_failures_v3(lim, cons, mode,
                                                d.file_results, << >>))]

----
(* ---------------------- inputs of the encoders ------------------------- *)
FocusModes == {"summary", "critical", "failures", "first-failure", "all"}
EncoderLimits == {-1, 0, 50, 55, 63, 200}

TestName == <<"t", " ", "a">>
ShortError == <<"b", "o", "o", "m">>
ExpectedText == <<"a", "b">>
ActualText == <<"c", "d">>

\* the kinds of ParsedTestResult: passed, bare failure, failure with
\* expected/actual, error
TestKinds == {"passed", "failure", "compared", "error"}

TestOfKind(k, i) ==
    [name |-> TestName,
     line |-> Some(i),
     passed |-> (k = "passed"),
     expected |-> IF k = "compared" THEN Some(ExpectedText) ELSE None,
     actual |-> IF k = "compared" THEN Some(ActualText) ELSE None,
     error_message |-> IF k = "error" THEN Some(ShortError) ELSE None]

\* the path of the i-th file: s/a.py, s/aa.py, ...
PathOf(i) == <<"s", "/">> \o Text(<<"a">>, i) \o <<".", "p", "y">>

KindLists == UNION { [1..n -> TestKinds] : n \in 0..MaxTests }
FileLists == UNION { [1..n -> KindLists] : n \in 0..MaxFiles }

FileOf(kinds, i) ==
    [file_path |-> PathOf(i),
     test_results |-> [j \in DOMAIN kinds |-> TestOfKind(kinds[j], j)]]

RECURSIVE SumSeq(_)
SumSeq(s) == IF s = << >> THEN 0 ELSE Head(s) + SumSeq(Tail(s))

CountTests(files, P(_)) ==
    SumSeq([i \in DOMAIN files |->
              Cardinality({ j \in DOMAIN files[i].test_results :
                              P(files[i].test_results[j]) })])

is_passed(t) == t.passed
any_test(t) == TRUE

\* a ParsedTestData whose counts tally its results
DataOf(fl) ==
    LET files == [i \in DOMAIN fl |-> FileOf(fl[i], i)]
    IN  [total_tests |-> CountTests(files, any_test),
         passed_tests |-> CountTests(files, is_passed),
         failed_tests |-> CountTests(files, is_failure),
         error_tests |-> CountTests(files, is_error),
         total_files |-> Len(files),
         elapsed_time |-> None,
         file_results |-> files]

EncoderData == { DataOf(fl) : fl \in FileLists }

\* the processes an encoder runs in: command line, os.environ, the answers
\* of "pip --version" and "git rev-parse" (None when the tool fails), and
\* the project type found in the working directory
Processes ==
    {[command |-> <<<<"t", "p">>>>, pid |-> 1,
      environ |-> <<[key |-> "HOME", value |-> <<"/r">>]>>,
      pip |-> None, git |-> None, project_type |-> <<"generic">>],
     [command |-> <<<<"t", "p">>, <<"-", "x">>>>, pid |-> 1,
      environ |-> <<[key |-> "CI", value |-> << >>]>>,
      pip |-> Some(<<"pip", " ", "23.2.1">>), git |-> None,
      project_type |-> <<"generic">>],
     [command |-> <<<<"t", "p">>, <<"-", "v">>, <<"-", "q">>>>, pid |-> 1,
      environ |-> <<[key |-> "HOME", value |-> <<"/r">>]>>,
      pip |-> None, git |-> Some(<<"git", " ", "main", "@", "abc">>),
      project_type |-> <<"python_package">>],
     [command |-> <<<<"t", "p">>, <<"-", "q">>>>, pid |-> 1,
      environ |-> <<[key |-> "NODE_ENV", value |-> <<"test">>],
                    [key |-> "GITHUB_ACTIONS", value |-> <<"true">>]>>,
      pip |-> Some(<<"pip", " ", "23.2.1">>),
      git |-> Some(<<"git", " ", "main", "@", "abc">>),
      project_type |-> <<"generic">>]}

\* an encoder constructed with a focus mode and a fresh TokenBudget(limit),
\* and the ParsedTestData it is about to encode
InitEncode ==
    /\ limit \in EncoderLimits
    /\ consumed = YAML_OVERHEAD
    /\ call = NoCall
    /\ encoder \in {"v1", "v3"}
    /\ focus_mode \in FocusModes
    /\ parsed_data \in EncoderData
    /\ process \in (IF encoder = "v3" THEN Processes ELSE {NoProcess})
    /\ output = NoOutput
    /\ ParserIdle

\* TOPAEncoder.encode(parsed_data)
EncodeV1 ==
    /\ encoder = "v1"
    /\ output = NoOutput
    /\ output' = encode_v1(limit, consumed, focus_mode, parsed_data)
    /\ UNCHANGED <<budgetVars, encoder, focus_mode, parsed_data, process, parserVars>>

\* TOPAV3Encoder.encode(parsed_data)
EncodeV3 ==
    /\ encoder = "v3"
    /\ output = NoOutput
    /\ output' = encode_v3(limit, consumed, focus_mode, parsed_data, process)
    /\ UNCHANGED <<budgetVars, encoder, focus_mode, parsed_data, process, parserVars>>

NextEncode == EncodeV1 \/ EncodeV3

SpecEncode == InitEncode /\ [][NextEncode]_vars

\* the same, for the limits that cover the structural overhead
InitEncodeFunded == InitEncode /\ limit >= YAML_OVERHEAD

SpecEncodeFunded == InitEncodeFunded /\ [][NextEncode]_vars

\* the names, messages and values of the results with long fields
FieldTexts ==
    { TestName,
      Text(<<"a">>, LongFieldLen),
      Text(<<":">>, LongFieldLen),
      Text(<<"a", "b", ".", " ", "c", "d", "e">>, LongFieldLen) }

\* one file with one non-passed result built from those texts
FieldData ==
    { LET test == [name |-> n, line |-> Some(1), passed |-> FALSE,
                   expected |-> v, actual |-> v, error_message |-> m]
          files == <<[file_path |-> PathOf(1), test_results |-> <<test>>]>>
      IN  [total_tests |-> 1, passed_tests |-> 0,
           failed_tests |-> CountTests(files, is_failure),
           error_tests |-> CountTests(files, is_error),
           total_files |-> 1, elapsed_time |-> None, file_results |-> files] :
      n \in FieldTexts,
      m \in {None} \cup { Some(t) : t \in FieldTexts },
      v \in {None} \cup { Some(t) : t \in FieldTexts } }

\* a v1 encoder about to encode a result with long fields
InitEncodeFields ==
    /\ limit \in EncoderLimits
    /\ consumed = YAML_OVERHEAD
    /\ call = NoCall
    /\ encoder = "v1"
    /\ focus_mode \in FocusModes
    /\ parsed_data \in FieldData
    /\ process = NoProcess
    /\ output = NoOutput
    /\ ParserIdle

NextEncodeFields == EncodeV1

SpecEncodeFields == InitEncodeFields /\ [][NextEncodeFields]_vars

\* file paths that meet after normalization, or meet a key of the v0.3 tree
CollidingPaths ==
    { PathOf(1),
      <<".", "/">> \o PathOf(1),
      PathOf(2),
      ExecutionContextKey }

\* two files, each with one result, under those paths
PathData ==
    { LET files == [i \in 1..2 |->
                      [file_path |-> ps[i],
                       test_results |-> <<TestOfKind(ks[i], i)>>]]
      IN  [total_tests |-> CountTests(files, any_test),
           passed_tests |-> CountTests(files, is_passed),
           failed_tests |-> CountTests(files, is_failure),
           error_tests |-> CountTests(files, is_error),
           total_files |-> Len(files),
           elapsed_time |-> None,
           file_results |-> files] :
        ps \in [1..2 -> CollidingPaths],
        ks \in [1..2 -> {"passed", "failure", "error"}] }

\* TOPAV3Encoder(focus_mode, TokenBudget(limit)) with such data
InitEncodePaths ==
    /\ limit \in EncoderLimits
    /\ consumed = YAML_OVERHEAD
    /\ call = NoCall
    /\ encoder = "v3"
    /\ focus_mode \in FocusModes
    /\ parsed_data \in PathData
    /\ process = NoProcess
    /\ output = NoOutput
    /\ ParserIdle

NextEncodePaths == EncodeV3

SpecEncodePaths == InitEncodePaths /\ [][NextEncodePaths]_vars

----
(* ------------------------- parsers: common ----------------------------- *)
(* A parser's text is a sequence of words (lower-case, whitespace          *)
(* separated); a keyword test "kw in text.lower()" looks for the word.     *)
(* What the XML and JSON libraries make of the content is part of the      *)
(* input: content.xml is the outcome of ET.fromstring, content.json the    *)
(* outcome of json.loads, content.lines the same content split in lines.   *)

\* "kw in line.lower()" for a one-word keyword
HasWord(words, kw) == \E i \in DOMAIN words : words[i] = kw

\* "kw in line.lower()" for a two-word keyword such as "stack trace"
HasPair(words, kw1, kw2) ==
    \E i \in 1..(Len(words) - 1) : words[i] = kw1 /\ words[i + 1] = kw2

\* BaseParser._is_error_message
is_error_message(words) ==
    \/ \E kw \in {"error", "exception", "traceback", "fatal"} : HasWord(words, kw)
    \/ HasPair(words, "stack", "trace")
    \/ HasPair(words, "undefined", "method")
    \/ HasPair(words, "no", "method")
    \/ HasPair(words, "null", "pointer")
    \/ HasPair(words, "syntax", "error")
    \/ HasPair(words, "runtime", "error")

\* BaseParser._normalize_test_name, on words: a leading "test" / "it" is
\* dropped and an empty name becomes "unnamed test"
normalize_test_name(words) ==
    LET stripped == IF words # << >> /\ words[1] \in {"test", "it"}
                    THEN Tail(words) ELSE words
    IN  IF stripped = << >> THEN <<"unnamed", "test">> ELSE stripped

\* the "expected: X ... got: Y" pattern of _extract_assertion_values: the
\* first "expected:" and the last "got:" / "actual:" after it that leaves a
\* value on both sides
expected_got_values(words) ==
    LET starts == { i \in DOMAIN words : words[i] \in {"expected:", "Expected:"} }
    IN  IF starts = {} THEN <<None, None>>
        ELSE LET i == CHOOSE a \in starts : \A b \in starts : a <= b
                 gots == { j \in DOMAIN words :
                             /\ words[j] \in {"got:", "actual:", "Actual:"}
                             /\ j >= i + 2 /\ j + 1 <= Len(words) }
             IN  IF gots = {} THEN <<None, None>>
                 ELSE LET j == CHOOSE a \in gots : \A b \in gots : a >= b
                      IN  <<Some(SubSeq(words, i + 1, j - 1)),
                            Some(SubSeq(words, j + 1, Len(words)))>>

\* the "assert X == Y" pattern of _extract_assertion_values: X is the actual
\* value and Y the expected one
assert_equal_values(words) ==
    LET found == { p \in (DOMAIN words) \X (DOMAIN words) :
                     /\ words[p[1]] = "assert" /\ words[p[2]] = "=="
                     /\ p[2] >= p[1] + 2 /\ p[2] + 1 <= Len(words)
                     /\ \A k \in (p[1] + 1)..(p[2] - 1) :
                           words[k] \notin {"==", "!="} }
    IN  IF found = {} THEN <<None, None>>
        ELSE LET p == CHOOSE q \in found : \A r \in found : q[1] <= r[1]
             IN  <<Some(SubSeq(words, p[2] + 1, Len(words))),
                   Some(SubSeq(words, p[1] + 1, p[2] - 1))>>

\* BaseParser._extract_assertion_values: <<expected, actual>> of the first
\* pattern that matches, <<None, None>> when none does
extract_assertion_values(words) ==
    IF expected_got_values(words)[1] # None THEN expected_got_values(words)
    ELSE assert_equal_values(words)

\* a ParsedTestResult with the dataclass defaults
ParsedTestResult(name, line, passed) ==
    [name |-> name, line |-> line, passed |-> passed,
     expected |-> None, actual |-> None, error_message |-> None]

\* the tallies of _build_test_data and of the parsers' own statistics
TallyPassed(files) == CountTests(files, is_passed)
TallyFailed(files) == CountTests(files, LAMBDA t : ~t.passed /\ ~is_error(t))
TallyError(files) == CountTests(files, is_error)
TallyTotal(files) == SumSeq([i \in DOMAIN files |-> Len(files[i].test_results)])

\* BaseParser._build_test_data(file_results=...): totals are calculated
\* from the file results when total_tests is not given
build_test_data(file_results) ==
    IF file_results # << >>
    THEN [total_tests |-> TallyTotal(file_results),
          passed_tests |-> TallyPassed(file_results),
          failed_tests |-> TallyFailed(file_results),
          error_tests |-> TallyError(file_results),
          total_files |-> Len(file_results),
          elapsed_time |-> None,
          file_results |-> file_results]
    ELSE [NoData EXCEPT !.file_results = file_results]

\* what parse returned: an aggregate, or the exception it let through
Returned(d) == [status |-> "ok", data |-> d]
Raised(e) == [status |-> "raised", exception |-> e]
NoResult == [status |-> "none"]

----
(* ------------------------- parsers: JUnit XML -------------------------- *)

\* one line of JUnitParser._parse_as_text: the result it appends, if any
junit_text_line(words, error_context) ==
    IF HasWord(words, "test") \/ HasWord(words, "failure") \/ HasWord(words, "error")
    THEN LET passed == ~HasWord(words, "failure") /\ ~HasWord(words, "error")
             is_err == HasWord(words, "error")
         IN  <<[name |-> normalize_test_name(words),
                line |-> None,
                passed |-> passed,
                error_message |-> IF is_err THEN Some(words) ELSE None,
                expected |-> IF ~passed /\ ~is_err
                             THEN Some(<<"parse", "error">>) ELSE None,
                actual |-> IF ~passed /\ ~is_err
                           THEN Some(error_context) ELSE None]>>
    ELSE << >>

\* the loop over the lines of JUnitParser._parse_as_text (blank lines skipped)
RECURSIVE junit_text_results(_, _)
junit_text_results(lines, error_context) ==
    IF lines = << >> THEN << >>
    ELSE (IF Head(lines) = << >> THEN << >>
          ELSE junit_text_line(Head(lines), error_context))
         \o junit_text_results(Tail(lines), error_context)

\* variant: a scan that finds no result returns no file result
junit_parse_as_text_without_file(lines, error_context) ==
    build_test_data(
        IF junit_text_results(lines, error_context) = << >> THEN << >>
        ELSE <<[file_path |-> <<"junit_parse_error.xml">>,
                test_results |-> junit_text_results(lines, error_context)]>>)

\* JUnitParser._parse_as_text
junit_parse_as_text(lines, error_context) ==
    build_test_data(<<[file_path |-> <<"junit_parse_error.xml">>,
                       test_results |-> junit_text_results(lines, error_context)]>>)

\* an XML attribute read with int(testsuite.get(attr, "0"))
AttrInt(a) == IF a.kind = "missing" THEN 0 ELSE a.value

\* JUnitParser._parse_testcase: an <error> child wins over a <failure> child
parse_testcase(c) ==
    IF c.error
    THEN [ParsedTestResult(normalize_test_name(c.name), None, FALSE)
            EXCEPT !.error_message = Some(c.message)]
    ELSE IF c.failure
    THEN [ParsedTestResult(normalize_test_name(c.name), None, FALSE)
            EXCEPT !.expected = extract_assertion_values(c.message)[1],
                   !.actual = extract_assertion_values(c.message)[2]]
    ELSE ParsedTestResult(normalize_test_name(c.name), None, TRUE)

\* a suite with an attribute that int() / float() rejects
has_bad_attr(s) ==
    \E a \in {s.tests, s.failures, s.errors, s.time} : a.kind = "bad"

\* JUnitParser._extract_file_path_from_suite, for a suite named by a word
suite_file_path(s) == <<s.name, ".java">>

\* variant: the counts are recounted from the testcase elements
parse_testsuites_recounted(suites) ==
    build_test_data(
        [i \in DOMAIN suites |->
           [file_path |-> suite_file_path(suites[i]),
            test_results |->
               [j \in DOMAIN suites[i].testcases |->
                  parse_testcase(suites[i].testcases[j])]]])

\* JUnitParser._parse_testsuites, for suites whose attributes are numeric
parse_testsuites(suites) ==
    LET total_tests == SumSeq([i \in DOMAIN suites |-> AttrInt(suites[i].tests)])
        total_failures == SumSeq([i \in DOMAIN suites |-> AttrInt(suites[i].failures)])
        total_errors == SumSeq([i \in DOMAIN suites |-> AttrInt(suites[i].errors)])
        file_results ==
            [i \in DOMAIN suites |->
               [file_path |-> suite_file_path(suites[i]),
                test_results |->
                   [j \in DOMAIN suites[i].testcases |->
                      parse_testcase(suites[i].testcases[j])]]]
    IN  [total_tests |-> total_tests,
         passed_tests |-> total_tests - total_failures - total_errors,
         failed_tests |-> total_failures,
         error_tests |-> total_errors,
         total_files |-> Len(file_results),
         elapsed_time |-> None,
         file_results |-> file_results]

\* the exception the try block of JUnitParser.parse ends with, "" for none;
\* defused: defusedxml is installed and rejects a document declaring entities
junit_exception(xml, defused) ==
    IF xml.kind = "parse_error" THEN "ParseError"
    ELSE IF xml.entities /\ defused THEN "EntitiesForbidden"
    ELSE IF xml.root \notin {"testsuites", "testsuite"} THEN "ValueError"
    ELSE IF \E i \in DOMAIN xml.suites : has_bad_attr(xml.suites[i])
         THEN "ValueError"
    ELSE ""

\* tpane/parsers/junit.py, JUnitParser.parse: every exception of the try
\* block ends in the text-scan fallback
junit_parse(input, defused) ==
    LET e == junit_exception(input.xml, defused)
    IN  IF e = "" THEN Returned(parse_testsuites(input.xml.suites))
        ELSE IF e = "ParseError"
             THEN Returned(junit_parse_as_text(input.lines, <<"xml", "parse", "error">>))
        ELSE IF e = "EntitiesForbidden"
             THEN Returned(junit_parse_as_text(input.lines, <<"xml", "security", "error">>))
        ELSE Returned(junit_parse_as_text(input.lines, <<"xml", "processing", "error">>))

\* parsers/junit.py, JUnitParser.parse: only ET.ParseError is caught, and the
\* standard library parser accepts a document that declares entities
junit_legacy_parse(input) ==
    LET e == junit_exception(input.xml, FALSE)
    IN  IF e = "" THEN Returned(parse_testsuites(input.xml.suites))
        ELSE IF e = "ParseError"
             THEN Returned(junit_parse_as_text(input.lines, <<"xml", "parse", "error">>))
        ELSE Raised(e)

----
(* ------------------------ parsers: RSpec JSON -------------------------- *)

\* one line of RSpecParser._parse_as_text: the result it appends, if any
rspec_text_line(words, error_context) ==
    IF \E kw \in {"example", "spec", "failure", "error"} : HasWord(words, kw)
    THEN LET passed == ~HasWord(words, "failure") /\ ~HasWord(words, "error")
             is_err == HasWord(words, "error")
         IN  <<[name |-> normalize_test_name(words),
                line |-> None,
                passed |-> passed,
                error_message |-> IF is_err THEN Some(words) ELSE None,
                expected |-> IF ~passed /\ ~is_err
                             THEN Some(<<"valid", "json">>) ELSE None,
                actual |-> IF ~passed /\ ~is_err
                           THEN Some(error_context) ELSE None]>>
    ELSE << >>

\* the loop over the lines of RSpecParser._parse_as_text
RECURSIVE rspec_text_results(_, _)
rspec_text_results(lines, error_context) ==
    IF lines = << >> THEN << >>
    ELSE (IF Head(lines) = << >> THEN << >>
          ELSE rspec_text_line(Head(lines), error_context))
         \o rspec_text_results(Tail(lines), error_context)

\* RSpecParser._parse_as_text
rspec_parse_as_text(lines, error_context) ==
    build_test_data(<<[file_path |-> <<"rspec_parse_error.json">>,
                       test_results |-> rspec_text_results(lines, error_context)]>>)

\* RSpecParser._is_rspec_error: anything but a known assertion class
is_rspec_error(exception_class) ==
    exception_class \notin {"RSpec::Expectations::ExpectationNotMetError",
                            "ExpectationNotMetError", "Failure"}

\* RSpecParser._normalize_rspec_description
normalize_rspec_description(words) ==
    IF words = << >> THEN <<"unnamed", "example">> ELSE words

\* example.get("file_path", "unknown_spec.rb") and _clean_rspec_file_path
clean_rspec_file_path(fp) ==
    IF fp = None \/ TheValue(fp) = << >> THEN <<"unknown_spec.rb">> ELSE TheValue(fp)

\* RSpecParser._parse_example
parse_example(ex) ==
    LET passed == ex.status \in {"passed", "pending"}
        base == ParsedTestResult(normalize_rspec_description(ex.description),
                                 ex.line_number, passed)
    IN  IF passed \/ ex.exception = None THEN base
        ELSE LET exc == TheValue(ex.exception)
             IN  IF is_rspec_error(exc.class)
                 THEN [base EXCEPT !.error_message = Some(<<exc.class>> \o exc.message)]
                 ELSE IF extract_assertion_values(exc.message)[1] # None
                 THEN [base EXCEPT
                         !.expected = extract_assertion_values(exc.message)[1],
                         !.actual = extract_assertion_values(exc.message)[2]]
                 ELSE [base EXCEPT
                         !.expected = Some(<<"assertion", "to", "pass">>),
                         !.actual = Some(<<exc.class>> \o exc.message)]

\* the grouping of the examples by file path, in first-seen order
RECURSIVE group_examples(_, _)
group_examples(examples, file_tests) ==
    IF examples = << >> THEN file_tests
    ELSE LET ex == Head(examples)
             file_path == clean_rspec_file_path(ex.file_path)
             at == { i \in DOMAIN file_tests : file_tests[i].file_path = file_path }
         IN  group_examples(Tail(examples),
                IF at = {}
                THEN Append(file_tests, [file_path |-> file_path,
                                         test_results |-> <<parse_example(ex)>>])
                ELSE [i \in DOMAIN file_tests |->
                        IF i \in at
                        THEN [file_tests[i] EXCEPT
                                !.test_results = Append(@, parse_example(ex))]
                        ELSE file_tests[i]])

\* summary.get(key, 0)
SummaryCount(summary, key) ==
    IF summary[key] = None THEN 0 ELSE TheValue(summary[key])

\* RSpecParser._parse_rspec_json
parse_rspec_json(json) ==
    LET total_tests == SummaryCount(json.summary, "example_count")
        declared_failures == SummaryCount(json.summary, "failure_count")
        declared_errors == SummaryCount(json.summary, "error_count")
        file_results == group_examples(json.examples, << >>)
    IN  [total_tests |-> total_tests,
         passed_tests |-> total_tests - declared_failures - declared_errors,
         failed_tests |-> declared_failures,
         error_tests |-> declared_errors,
         total_files |-> Len(file_results),
         elapsed_time |-> None,
         file_results |-> file_results]

\* RSpecParser.parse: only json.JSONDecodeError is caught; the ValueError
\* raised for a root that is no object, or has no "examples", passes through
rspec_parse(input) ==
    IF input.json.kind = "decode_error"
    THEN Returned(rspec_parse_as_text(input.lines, <<"json", "parse", "error">>))
    ELSE IF input.json.kind # "object" THEN Raised("ValueError")
    ELSE IF ~input.json.has_examples THEN Raised("ValueError")
    ELSE Returned(parse_rspec_json(input.json))

----
(* --------------------------- parsers: TAP ------------------------------ *)
(* A TAP line is what the parser's patterns make of it: a plan "1..N", a   *)
(* result "ok" / "not ok" with its directive and description, a comment    *)
(* "# ..." with its words (and the file path found in it), or a line that  *)
(* matches nothing.                                                        *)

TapInitial ==
    [test_results |-> << >>, planned_tests |-> 0,
     current_file |-> <<"tap_output">>, pending_diagnostics |-> << >>]

\* " ".join(pending_diagnostics)
RECURSIVE JoinWords(_)
JoinWords(texts) ==
    IF texts = << >> THEN << >> ELSE Head(texts) \o JoinWords(Tail(texts))

UnexpectedPass == <<"unexpected", "pass", "-", "todo", "item", "succeeded">>

\* the diagnostics a failed result takes: an error message when they read
\* like one, else expected / actual
attach_diagnostics(test_result, pending) ==
    LET diagnostic_text == JoinWords(pending)
        values == extract_assertion_values(diagnostic_text)
    IN  IF is_error_message(diagnostic_text)
        THEN [test_result EXCEPT !.error_message = Some(diagnostic_text)]
        ELSE IF values[1] # None /\ values[2] # None
        THEN [test_result EXCEPT !.expected = values[1], !.actual = values[2]]
        ELSE [test_result EXCEPT !.expected = Some(<<"test", "to", "pass">>),
                                 !.actual = Some(diagnostic_text)]

\* variant: the queue is not emptied when its diagnostics are attached
tap_result_keeping_queue(st, ln, line_num) ==
    LET ok == ln.ok
        passed == IF ln.directive = "TODO" THEN ~ok
                  ELSE IF ln.directive = "SKIP" THEN TRUE
                  ELSE ok
        pending == IF ln.directive = "TODO" /\ ok
                   THEN Append(st.pending_diagnostics, UnexpectedPass)
                   ELSE st.pending_diagnostics
        description == IF ln.description = << >> /\ ln.directive = ""
                       THEN <<"test", ToString(Len(st.test_results) + 1)>>
                       ELSE ln.description
        test_result == ParsedTestResult(normalize_test_name(description),
                                        Some(line_num), passed)
        attach == ~passed /\ pending # << >>
    IN  [st EXCEPT
           !.test_results = Append(@, IF attach
                                      THEN attach_diagnostics(test_result, pending)
                                      ELSE test_result),
           !.pending_diagnostics = pending]

\* variant: the queued diagnostics are attached to a passed result as well
tap_result_always_attached(st, ln, line_num) ==
    LET ok == ln.ok
        passed == IF ln.directive = "TODO" THEN ~ok
                  ELSE IF ln.directive = "SKIP" THEN TRUE
                  ELSE ok
        pending == IF ln.directive = "TODO" /\ ok
                   THEN Append(st.pending_diagnostics, UnexpectedPass)
                   ELSE st.pending_diagnostics
        description == IF ln.description = << >> /\ ln.directive = ""
                       THEN <<"test", ToString(Len(st.test_results) + 1)>>
                       ELSE ln.description
        test_result == ParsedTestResult(normalize_test_name(description),
                                        Some(line_num), passed)
        attach == pending # << >>
    IN  [st EXCEPT
           !.test_results = Append(@, IF attach
                                      THEN attach_diagnostics(test_result, pending)
                                      ELSE test_result),
           !.pending_diagnostics = IF attach THEN << >> ELSE pending]

\* the result-line branch of TAPParser.parse
tap_result(st, ln, line_num) ==
    LET ok == ln.ok
        passed == IF ln.directive = "TODO" THEN ~ok
                  ELSE IF ln.directive = "SKIP" THEN TRUE
                  ELSE ok
        pending == IF ln.directive = "TODO" /\ ok
                   THEN Append(st.pending_diagnostics, UnexpectedPass)
                   ELSE st.pending_diagnostics
        description == IF ln.description = << >> /\ ln.directive = ""
                       THEN <<"test", ToString(Len(st.test_results) + 1)>>
                       ELSE ln.description
        test_result == ParsedTestResult(normalize_test_name(description),
                                        Some(line_num), passed)
        attach == ~passed /\ pending # << >>
    IN  [st EXCEPT
           !.test_results = Append(@, IF attach
                                      THEN attach_diagnostics(test_result, pending)
                                      ELSE test_result),
           !.pending_diagnostics = IF attach THEN << >> ELSE pending]

\* the plan-line branch of TAPParser.parse
tap_plan(st, ln) ==
    [st EXCEPT !.planned_tests = ln.count,
               !.current_file = IF ln.file # None THEN TheValue(ln.file) ELSE @]

\* the comment-line branch of TAPParser.parse
tap_diagnostic(st, ln) ==
    IF ln.words = << >> \/ ln.words[1] \in {"skip", "todo", "fixme"} THEN st
    ELSE IF ln.file # None
    THEN [st EXCEPT !.current_file = TheValue(ln.file)]
    ELSE [st EXCEPT !.pending_diagnostics = Append(@, ln.words)]

\* one iteration of the loop of TAPParser.parse
tap_line(st, ln, line_num) ==
    IF ln.kind = "plan" THEN tap_plan(st, ln)
    ELSE IF ln.kind = "result" THEN tap_result(st, ln, line_num)
    ELSE IF ln.kind = "comment" THEN tap_diagnostic(st, ln)
    ELSE st

\* the loop of TAPParser.parse over the first n lines
RECURSIVE tap_scan(_, _)
tap_scan(lines, n) ==
    IF n = 0 THEN TapInitial
    ELSE tap_line(tap_scan(lines, n - 1), lines[n], n)

\* variant: the plan-mismatch result is appended without being counted
tap_statistics_uncounted_mismatch(st) ==
    LET file == <<[file_path |-> st.current_file, test_results |-> st.test_results]>>
        total_tests == Len(st.test_results)
        mismatch == st.planned_tests > 0 /\ total_tests # st.planned_tests
        plan_mismatch ==
            [ParsedTestResult(<<"test", "plan", "mismatch">>, None, FALSE)
               EXCEPT !.error_message =
                        Some(<<"planned", ToString(st.planned_tests), "tests",
                               "but", "got", ToString(total_tests)>>)]
    IN  [total_tests |-> total_tests,
         passed_tests |-> TallyPassed(file),
         failed_tests |-> TallyFailed(file),
         error_tests |-> TallyError(file),
         total_files |-> 1,
         elapsed_time |-> None,
         file_results |->
            <<[file_path |-> st.current_file,
               test_results |-> IF mismatch
                                THEN Append(st.test_results, plan_mismatch)
                                ELSE st.test_results]>>]

\* the statistics, the plan check and the aggregate of TAPParser.parse
tap_statistics(st) ==
    LET file == <<[file_path |-> st.current_file, test_results |-> st.test_results]>>
        total_tests == Len(st.test_results)
        mismatch == st.planned_tests > 0 /\ total_tests # st.planned_tests
        plan_mismatch ==
            [ParsedTestResult(<<"test", "plan", "mismatch">>, None, FALSE)
               EXCEPT !.error_message =
                        Some(<<"planned", ToString(st.planned_tests), "tests",
                               "but", "got", ToString(total_tests)>>)]
    IN  [total_tests |-> IF mismatch THEN total_tests + 1 ELSE total_tests,
         passed_tests |-> TallyPassed(file),
         failed_tests |-> TallyFailed(file),
         error_tests |-> IF mismatch THEN TallyError(file) + 1 ELSE TallyError(file),
         total_files |-> 1,
         elapsed_time |-> None,
         file_results |->
            <<[file_path |-> st.current_file,
               test_results |-> IF mismatch
                                THEN Append(st.test_results, plan_mismatch)
                                ELSE st.test_results]>>]

\* TAPParser.parse
tap_parse(input) ==
    Returned(tap_statistics(tap_scan(input.lines, Len(input.lines))))

----
(* ------------------------- parsers: pytest ----------------------------- *)
(* A pytest line is a summary "=== F failed, P passed, E error in Ts ===", *)
(* an outcome line FAILED / ERROR / PASSED with its file, test name and    *)
(* reason, or any other text.                                              *)

PytestInitial ==
    [file_tests |-> << >>, total_tests |-> 0, failed_count |-> 0,
     passed_count |-> 0, error_count |-> 0]

\* "int(group or 0)" for an optional group of the summary pattern
GroupOrZero(g) == IF g = None THEN 0 ELSE TheValue(g)

\* the lines PytestParser._extract_assertion_from_context looks at: those
\* after the outcome line, up to ten, up to the next outcome line
RECURSIVE ContextLines(_, _, _)
ContextLines(lines, i, stop) ==
    IF i >= stop \/ lines[i + 1].kind = "outcome" THEN << >>
    ELSE <<lines[i + 1]>> \o ContextLines(lines, i + 1, stop)

\* a line PytestParser._extract_assertion_from_context takes its values from
has_assertion(ln) ==
    /\ ln.kind = "text"
    /\ \E w \in {"assert", "==", "!=", "Expected:", "Actual:"} : HasWord(ln.words, w)
    /\ extract_assertion_values(ln.words)[1] # None
    /\ extract_assertion_values(ln.words)[2] # None

\* PytestParser._extract_assertion_from_context; start_index counts from 0
extract_assertion_from_context(lines, start_index) ==
    LET context == ContextLines(lines, start_index,
                                Min(start_index + 10, Len(lines)))
        found == { k \in DOMAIN context : has_assertion(context[k]) }
    IN  IF found = {} THEN None
        ELSE Some(extract_assertion_values(
                    context[CHOOSE k \in found : \A m \in found : k <= m].words))

\* file_tests[file_path].append(test_result), keys in first-seen order
add_file_test(file_tests, file_path, test_result) ==
    LET at == { i \in DOMAIN file_tests : file_tests[i].file_path = file_path }
    IN  IF at = {}
        THEN Append(file_tests, [file_path |-> file_path,
                                 test_results |-> <<test_result>>])
        ELSE [i \in DOMAIN file_tests |->
                IF i \in at
                THEN [file_tests[i] EXCEPT !.test_results = Append(@, test_result)]
                ELSE file_tests[i]]

\* "group(2) or 'unknown'"
NameOrUnknown(ln) == IF ln.name = << >> THEN <<"unknown">> ELSE ln.name

\* the FAILED branch of PytestParser.parse
pytest_failed(st, lines, i) ==
    LET ln == lines[i]
        base == ParsedTestResult(normalize_test_name(NameOrUnknown(ln)), None, FALSE)
        details == extract_assertion_from_context(lines, i)
        test_result ==
            IF details # None
            THEN [base EXCEPT !.expected = TheValue(details)[1],
                              !.actual = TheValue(details)[2]]
            ELSE IF ln.reason = << >> THEN base
            ELSE IF is_error_message(ln.reason)
            THEN [base EXCEPT !.error_message = Some(ln.reason)]
            ELSE [base EXCEPT !.expected = Some(<<"assertion", "to", "pass">>),
                              !.actual = Some(ln.reason)]
    IN  [st EXCEPT !.file_tests = add_file_test(@, ln.file, test_result)]

\* the ERROR branch of PytestParser.parse
pytest_error(st, ln) ==
    LET error_reason == IF ln.reason = << >> THEN <<"unknown", "error">>
                        ELSE ln.reason
        test_result ==
            [ParsedTestResult(normalize_test_name(NameOrUnknown(ln)), None, FALSE)
               EXCEPT !.error_message = Some(error_reason)]
    IN  [st EXCEPT !.file_tests = add_file_test(@, ln.file, test_result)]

\* the PASSED branch of PytestParser.parse
pytest_passed(st, ln) ==
    [st EXCEPT !.file_tests =
        add_file_test(@, ln.file,
            ParsedTestResult(normalize_test_name(NameOrUnknown(ln)), None, TRUE))]

\* the summary branch of PytestParser.parse
pytest_summary(st, ln) ==
    [st EXCEPT !.failed_count = ln.failed,
               !.passed_count = GroupOrZero(ln.passed),
               !.error_count = GroupOrZero(ln.error),
               !.total_tests = ln.failed + GroupOrZero(ln.passed)
                               + GroupOrZero(ln.error)]

\* one iteration of the loop of PytestParser.parse
pytest_line(st, lines, i) ==
    LET ln == lines[i]
    IN  IF ln.kind = "summary" THEN pytest_summary(st, ln)
        ELSE IF ln.kind = "outcome" /\ ln.tag = "FAILED" THEN pytest_failed(st, lines, i)
        ELSE IF ln.kind = "outcome" /\ ln.tag = "ERROR" THEN pytest_error(st, ln)
        ELSE IF ln.kind = "outcome" /\ ln.tag = "PASSED" THEN pytest_passed(st, ln)
        ELSE st

\* the loop of PytestParser.parse over the first n lines
RECURSIVE pytest_scan(_, _)
pytest_scan(lines, n) ==
    IF n = 0 THEN PytestInitial
    ELSE pytest_line(pytest_scan(lines, n - 1), lines, n)

\* str.endswith(".py")
EndsWithPy(p) ==
    Len(p) >= 3 /\ SubSeq(p, Len(p) - 2, Len(p)) = <<".", "p", "y">>

\* PytestParser._clean_file_path
clean_file_path(p) ==
    IF p = << >> THEN Unknown
    ELSE IF (\/ Contains(p, <<"/">>)
             \/ Contains(p, <<"_", "t", "e", "s", "t">>)
             \/ Contains(p, <<"t", "e", "s", "t", "_">>)) /\ ~EndsWithPy(p)
    THEN p \o <<".", "p", "y">>
    ELSE p

\* the placeholder results made when a summary stands without results
generic_tests(n_failed, n_error, n_passed) ==
    [i \in 1..Max(0, n_failed) |->
        [ParsedTestResult(<<"failed", "test", ToString(i)>>, None, FALSE)
           EXCEPT !.expected = Some(<<"test", "to", "pass">>),
                  !.actual = Some(<<"test", "failed">>)]]
    \o [i \in 1..Max(0, n_error) |->
        [ParsedTestResult(<<"error", "test", ToString(i)>>, None, FALSE)
           EXCEPT !.error_message = Some(<<"test", "error", "occurred">>)]]
    \o [i \in 1..Max(0, n_passed) |->
        ParsedTestResult(<<"passed", "test", ToString(i)>>, None, TRUE)]

\* the end of PytestParser.parse: the counts, the file results, the
\* placeholders and the aggregate
pytest_finish(st) ==
    LET derived == st.total_tests = 0
        total_tests == IF derived THEN TallyTotal(st.file_tests) ELSE st.total_tests
        n_passed == IF derived THEN TallyPassed(st.file_tests) ELSE st.passed_count
        n_failed == IF derived THEN TallyFailed(st.file_tests) ELSE st.failed_count
        n_error == IF derived THEN TallyError(st.file_tests) ELSE st.error_count
        cleaned == [i \in DOMAIN st.file_tests |->
                      [file_path |-> clean_file_path(st.file_tests[i].file_path),
                       test_results |-> st.file_tests[i].test_results]]
        file_results ==
            IF total_tests > 0 /\ cleaned = << >>
            THEN <<[file_path |-> <<"pytest_output">>,
                    test_results |-> generic_tests(n_failed, n_error, n_passed)]>>
            ELSE cleaned
    IN  [total_tests |-> total_tests,
         passed_tests |-> n_passed,
         failed_tests |-> n_failed,
         error_tests |-> n_error,
         total_files |-> Len(file_results),
         elapsed_time |-> None,
         file_results |-> file_results]

\* PytestParser.parse
pytest_parse(input) ==
    Returned(pytest_finish(pytest_scan(input.lines, Len(input.lines))))

----
(* ----------------------- parsers: the inputs --------------------------- *)

LineSeqs(alphabet) == UNION { [1..n -> alphabet] : n \in 0..MaxLines }

\* lines of a text the JUnit and RSpec text scans look at
ScanLines ==
    { << >>, <<"x">>, <<"test">>, <<"failure">>, <<"error">>,
      <<"test", "failure">>, <<"failure", "error">>, <<"example">>,
      <<"spec", "error">> }

MissingAttr == [kind |-> "missing", value |-> 0]
IntAttr(n) == [kind |-> "int", value |-> n]
BadAttr == [kind |-> "bad", value |-> 0]

\* <testcase> elements: passed, failed, in error, and with both children
TestCases ==
    { [name |-> <<"t">>, failure |-> f, error |-> e,
       message |-> IF e THEN <<"boom">> ELSE <<"expected:", "x", "got:", "y">>] :
        f \in BOOLEAN, e \in BOOLEAN }

\* the declared counts of a <testsuite>: none, 3 / 1 / 1, and failures only
SuiteCounts ==
    { <<MissingAttr, MissingAttr, MissingAttr>>,
      <<IntAttr(3), IntAttr(1), IntAttr(1)>>,
      <<MissingAttr, IntAttr(1), MissingAttr>> }

Suites ==
    { [name |-> "s", tests |-> c[1], failures |-> c[2], errors |-> c[3],
       time |-> MissingAttr, testcases |-> tc] :
        c \in SuiteCounts,
        tc \in UNION { [1..n -> TestCases] : n \in 0..MaxTests } }

\* suites with an attribute that is no number
BadSuites ==
    { [name |-> "s", tests |-> BadAttr, failures |-> MissingAttr,
       errors |-> MissingAttr, time |-> MissingAttr, testcases |-> << >>],
      [name |-> "s", tests |-> IntAttr(1), failures |-> MissingAttr,
       errors |-> MissingAttr, time |-> BadAttr, testcases |-> << >>] }

XmlParseError == [kind |-> "parse_error", entities |-> FALSE, root |-> "",
                  suites |-> << >>]
XmlTree(entities, root, suites) ==
    [kind |-> "tree", entities |-> entities, root |-> root, suites |-> suites]

\* what a JUnit parser is given: text that is no XML, a document declaring
\* entities, a foreign root element, a non-numeric attribute, and reports
\* under a <testsuites> or a <testsuite> root
JUnitContents ==
    { [xml |-> XmlParseError, lines |-> l] : l \in LineSeqs(ScanLines) }
    \cup { [xml |-> x, lines |-> l] :
             x \in {XmlTree(TRUE, "testsuite",
                            <<CHOOSE s \in Suites : s.tests = IntAttr(3)
                                                    /\ s.testcases = << >>>>),
                    XmlTree(FALSE, "level0", << >>)}
                   \cup { XmlTree(FALSE, "testsuite", <<s>>) : s \in BadSuites },
             l \in { m \in LineSeqs(ScanLines) : m # << >> /\ m[1] # << >> } }
    \cup { [xml |-> XmlTree(FALSE, "testsuites", ss), lines |-> <<<<"x">>>>] :
             ss \in UNION { [1..n -> Suites] : n \in 0..MaxFiles } }
    \cup { [xml |-> XmlTree(FALSE, "testsuite", <<s>>), lines |-> <<<<"x">>>>] :
             s \in Suites }

TapLines ==
    { [kind |-> "blank"] }
    \cup { [kind |-> "plan", count |-> n, file |-> None] : n \in 0..2 }
    \cup { [kind |-> "result", ok |-> ok, directive |-> d, description |-> <<"d">>] :
             ok \in BOOLEAN, d \in {"", "TODO", "SKIP"} }
    \cup { [kind |-> "comment", words |-> w, file |-> None] :
             w \in {<<"stack", "trace">>, <<"expected:", "x">>, <<"got:", "y">>} }
    \cup { [kind |-> "comment", words |-> <<"t/a.t">>, file |-> Some(<<"t/a.t">>)] }

TapContents == { [lines |-> l] : l \in LineSeqs(TapLines) }

PytestPaths == { <<"t", "/", "a", ".", "p", "y">>, <<"t", "/", "b">> }

PytestLines ==
    { [kind |-> "text", words |-> w] :
        w \in {<< >>, <<"x">>, <<"assert", "x", "==", "y">>} }
    \cup { [kind |-> "summary", failed |-> s[1], passed |-> s[2], error |-> s[3]] :
             s \in { <<0, None, None>>, <<1, None, None>>, <<1, Some(1), None>>,
                     <<2, Some(1), Some(1)>> } }
    \cup { [kind |-> "outcome", tag |-> "FAILED", file |-> f, name |-> <<"t">>,
            reason |-> r] :
             f \in PytestPaths, r \in {<< >>, <<"x">>, <<"runtime", "error">>} }
    \cup { [kind |-> "outcome", tag |-> "ERROR", file |-> PathOf(1), name |-> << >>,
            reason |-> r] : r \in {<< >>, <<"boom">>} }
    \cup { [kind |-> "outcome", tag |-> "PASSED", file |-> f, name |-> <<"t">>,
            reason |-> << >>] : f \in PytestPaths }

PytestContents == { [lines |-> l] : l \in LineSeqs(PytestLines) }

JsonDecodeError == [kind |-> "decode_error"]
NoSummary == [example_count |-> None, failure_count |-> None, error_count |-> None]

RSpecSummaries ==
    { [has_summary |-> FALSE, summary |-> NoSummary],
      [has_summary |-> TRUE, summary |-> NoSummary],
      [has_summary |-> TRUE,
       summary |-> [example_count |-> Some(2), failure_count |-> Some(1),
                    error_count |-> None]],
      [has_summary |-> TRUE,
       summary |-> [example_count |-> Some(5), failure_count |-> Some(2),
                    error_count |-> Some(1)]] }

RSpecExceptions ==
    { None,
      Some([class |-> "RSpec::Expectations::ExpectationNotMetError",
            message |-> <<"expected:", "x", "got:", "y">>]),
      Some([class |-> "NoMethodError", message |-> <<"boom">>]) }

RSpecExamples ==
    { [description |-> <<"d">>, status |-> "passed", line_number |-> Some(1),
       exception |-> None, file_path |-> fp] :
        fp \in {Some(<<"a_spec.rb">>), None} }
    \cup { [description |-> << >>, status |-> "pending", line_number |-> None,
            exception |-> None, file_path |-> Some(<<"a_spec.rb">>)] }
    \cup { [description |-> <<"d">>, status |-> "failed", line_number |-> Some(2),
            exception |-> e, file_path |-> Some(<<"b_spec.rb">>)] :
             e \in RSpecExceptions }

\* what the RSpec parser is given: text that is no JSON, a JSON value that is
\* no object, an object without "examples", and reports
RSpecContents ==
    { [json |-> JsonDecodeError, lines |-> l] : l \in LineSeqs(ScanLines) }
    \cup { [json |-> [kind |-> k], lines |-> <<<<"x">>>>] :
             k \in {"array", "scalar", "null"} }
    \cup { [json |-> [kind |-> "object", has_examples |-> FALSE,
                      has_summary |-> s.has_summary, summary |-> s.summary,
                      examples |-> << >>],
            lines |-> <<<<"x">>>>] : s \in RSpecSummaries }
    \cup { [json |-> [kind |-> "object", has_examples |-> TRUE,
                      has_summary |-> s.has_summary, summary |-> s.summary,
                      examples |-> ex],
            lines |-> <<<<"x">>>>] :
             s \in RSpecSummaries,
             ex \in UNION { [1..n -> RSpecExamples] : n \in 0..MaxTests } }

Parsers == {"junit", "junit_legacy", "tap", "pytest", "rspec"}

ContentsOf(p) ==
    IF p \in {"junit", "junit_legacy"} THEN JUnitContents
    ELSE IF p = "tap" THEN TapContents
    ELSE IF p = "pytest" THEN PytestContents
    ELSE RSpecContents

----
(* ----------------------- parsers: state machine ------------------------ *)

\* a parser is constructed and handed a content; no budget or encoder yet
InitParse ==
    /\ limit = 0
    /\ consumed = YAML_OVERHEAD
    /\ call = NoCall
    /\ EncoderIdle
    /\ parser \in Parsers
    /\ defusedxml \in BOOLEAN
    /\ content \in ContentsOf(parser)
    /\ input_format = NoResult
    /\ parse_result = NoResult
    /\ instances = << >>
    /\ threads = << >>

\* tpane.parsers.junit.JUnitParser().parse(content)
ParseJUnit ==
    /\ parser = "junit"
    /\ parse_result = NoResult
    /\ parse_result' = junit_parse(content, defusedxml)
    /\ UNCHANGED <<budgetVars, encoderVars, parser, defusedxml, content,
                   input_format, concurrentVars>>

\* parsers.junit.JUnitParser().parse(content)
ParseJUnitLegacy ==
    /\ parser = "junit_legacy"
    /\ parse_result = NoResult
    /\ parse_result' = junit_legacy_parse(content)
    /\ UNCHANGED <<budgetVars, encoderVars, parser, defusedxml, content,
                   input_format, concurrentVars>>

\* TAPParser().parse(content)
ParseTAP ==
    /\ parser = "tap"
    /\ parse_result = NoResult
    /\ parse_result' = tap_parse(content)
    /\ UNCHANGED <<budgetVars, encoderVars, parser, defusedxml, content,
                   input_format, concurrentVars>>

\* PytestParser().parse(content)
ParsePytest ==
    /\ parser = "pytest"
    /\ parse_result = NoResult
    /\ parse_result' = pytest_parse(content)
    /\ UNCHANGED <<budgetVars, encoderVars, parser, defusedxml, content,
                   input_format, concurrentVars>>

\* RSpecParser().parse(content)
ParseRSpec ==
    /\ parser = "rspec"
    /\ parse_result = NoResult
    /\ parse_result' = rspec_parse(content)
    /\ UNCHANGED <<budgetVars, encoderVars, parser, defusedxml, content,
                   input_format, concurrentVars>>

NextParse ==
    ParseJUnit \/ ParseJUnitLegacy \/ ParseTAP \/ ParsePytest \/ ParseRSpec

SpecParse == InitParse /\ [][NextParse]_vars

----
(* ----------------------- parse, then encode (main) --------------------- *)
(* main() parses the content with the parser of its format and hands the   *)
(* aggregate to the encoder; a parser that raises ends the run. The texts  *)
(* of the aggregate reach the encoder as the parser made them.             *)

\* the parsers get_parser can return
MainParsers == {"junit", "tap", "pytest", "rspec"}

\* --limit: no budget at all, or room for everything
MainLimits == {0, 200}

InitMain ==
    /\ limit \in MainLimits
    /\ consumed = YAML_OVERHEAD
    /\ call = NoCall
    /\ encoder = "v1"
    /\ focus_mode \in FocusModes
    /\ parsed_data = NoData
    /\ process = NoProcess
    /\ output = NoOutput
    /\ parser \in MainParsers
    /\ defusedxml \in (IF parser = "junit" THEN BOOLEAN ELSE {FALSE})
    /\ content \in { c \in ContentsOf(parser) : c.lines # << >> }
    /\ input_format = NoResult
    /\ parse_result = NoResult
    /\ instances = << >>
    /\ threads = << >>

\* encoder.encode(parsed_results) in main
EncodeParsed ==
    /\ encoder = "v1"
    /\ parse_result.status = "ok"
    /\ output = NoOutput
    /\ parsed_data' = parse_result.data
    /\ output' = encode_v1(limit, consumed, focus_mode, parse_result.data)
    /\ UNCHANGED <<budgetVars, encoder, focus_mode, process, parserVars>>

NextMain == ParseJUnit \/ ParseTAP \/ ParsePytest \/ ParseRSpec \/ EncodeParsed

SpecMain == InitMain /\ [][NextMain]_vars

----
(* ------------------------- format detection ---------------------------- *)
(* The content is a sequence of tokens; what json.loads makes of it is     *)
(* part of the input, as for the parsers.                                  *)

\* str.lower on a token
LowerToken(tok) ==
    CASE tok = "<?XML" -> "<?xml"
      [] tok = "TAP version" -> "tap version"
      [] OTHER -> tok

StartsWithAny(text, prefixes) == text # << >> /\ text[1] \in prefixes
ContainsToken(text, tok) == \E i \in DOMAIN text : text[i] = tok

PytestPatterns == {"failed", "passed", "::test_", "collected", "assertions",
                   "traceback", "assert "}

\* detect_format(content)
detect_format(input) ==
    LET content_lower == Strip([i \in DOMAIN input.text |->
                                  LowerToken(input.text[i])])
    IN  IF /\ StartsWithAny(content_lower, {"<?xml"})
           /\ ContainsToken(content_lower, "<testsuite")
        THEN Returned("junit")
        ELSE IF StartsWithAny(content_lower, {"1..", "tap version"})
        THEN Returned("tap")
        ELSE IF input.json.kind \in {"recursion_error", "value_error"}
        THEN Raised(input.json.kind)
        ELSE IF /\ input.json.kind = "object"
                /\ input.json.has_examples /\ input.json.has_summary
        THEN Returned("rspec")
        ELSE IF \E pat \in PytestPatterns : ContainsToken(content_lower, pat)
        THEN Returned("pytest")
        ELSE Returned("pytest")

\* get_parser(format_type): the parser class of a format, PytestParser for
\* a format without one
get_parser(format_type) ==
    IF format_type \in {"junit", "tap", "pytest", "rspec"} THEN format_type
    ELSE "pytest"

\* the contents handed to detect_format: up to MaxLines tokens, and the
\* outcomes json.loads can have on a text that starts as they do
DetectTokens == {" ", "<?xml", "<?XML", "<testsuite", "1..", "TAP version",
                 "{", "[", "1", "failed", "x"}
DetectTexts == UNION { [1..n -> DetectTokens] : n \in 0..MaxLines }
JsonOutcomes(text) ==
    LET stripped == Strip(text)
        first == IF stripped = << >> THEN "" ELSE stripped[1]
    IN  {JsonDecodeError}
        \cup (IF first = "{"
              THEN { [kind |-> "object", has_examples |-> e, has_summary |-> m] :
                       e \in BOOLEAN, m \in BOOLEAN }
                   \cup {[kind |-> "recursion_error"], [kind |-> "value_error"]}
              ELSE IF first = "["
              THEN {[kind |-> "array"], [kind |-> "recursion_error"],
                    [kind |-> "value_error"]}
              ELSE IF first = "1"
              THEN {[kind |-> "scalar"], [kind |-> "value_error"]}
              ELSE {})
DetectContents ==
    UNION { { [text |-> t, json |-> j] : j \in JsonOutcomes(t) } :
            t \in DetectTexts }

\* main() with --format auto, about to detect the format of its content
InitDetect ==
    /\ limit = 0
    /\ consumed = YAML_OVERHEAD
    /\ call = NoCall
    /\ EncoderIdle
    /\ parser = "none"
    /\ defusedxml = FALSE
    /\ content \in DetectContents
    /\ input_format = NoResult
    /\ parse_result = NoResult
    /\ instances = << >>
    /\ threads = << >>

\* input_format = detect_format(content)
DetectFormat ==
    /\ input_format = NoResult
    /\ input_format' = detect_format(content)
    /\ UNCHANGED <<budgetVars, encoderVars, parser, defusedxml, content,
                   parse_result, concurrentVars>>

\* test_parser = get_parser(input_format)
GetParser ==
    /\ input_format.status = "ok"
    /\ parser = "none"
    /\ parser' = get_parser(input_format.data)
    /\ UNCHANGED <<budgetVars, encoderVars, defusedxml, content, input_format,
                   parse_result, concurrentVars>>

NextDetect == DetectFormat \/ GetParser

SpecDetect == InitDetect /\ [][NextDetect]_vars

----
(* ------------------- parse calls in concurrent threads ------------------ *)
(* Each thread runs TAPParser.parse on a parser instance, one loop         *)
(* iteration per step; two threads may use the same instance.              *)

\* what TAPParser.__init__ stores on the instance: the compiled patterns
TAPParserAttrs == [patterns |-> "compiled"]

\* one iteration of the loop of TAPParser.parse on the instance self: the
\* patterns of self are read, the locals of the call are written
tap_iteration_pending_on_self(self, st, ln, line_num) ==
    LET shared == IF "pending" \in DOMAIN self THEN self.pending ELSE << >>
        after == tap_line([st EXCEPT !.pending_diagnostics = shared],
                          ln, line_num)
    IN  [self |-> [patterns |-> self.patterns,
                   pending |-> after.pending_diagnostics],
         locals |-> after]
tap_iteration(self, st, ln, line_num) ==
    [self |-> self, locals |-> tap_line(st, ln, line_num)]

Threads == {1, 2}
ParserInstances == {1, 2}

\* the lines the threads parse
ThreadLines ==
    { [kind |-> "plan", count |-> 2, file |-> None],
      [kind |-> "result", ok |-> FALSE, directive |-> "", description |-> <<"d">>],
      [kind |-> "result", ok |-> TRUE, directive |-> "TODO", description |-> <<"d">>],
      [kind |-> "comment", words |-> <<"stack", "trace">>, file |-> None] }

\* a thread about to enter parse(content) on an instance
ThreadCall(instance, lines) ==
    [instance |-> instance, lines |-> lines, position |-> 1,
     locals |-> TapInitial, ret |-> NoResult]

\* two threads, on one parser instance or on two
InitThreads ==
    /\ limit = 0
    /\ consumed = YAML_OVERHEAD
    /\ call = NoCall
    /\ EncoderIdle
    /\ parser = "tap"
    /\ defusedxml = FALSE
    /\ content = [lines |-> << >>]
    /\ input_format = NoResult
    /\ parse_result = NoResult
    /\ instances = [i \in ParserInstances |-> TAPParserAttrs]
    /\ threads \in { [t \in Threads |->
                        ThreadCall(IF t = 1 THEN 1 ELSE i2,
                                   IF t = 1 THEN l1 ELSE l2)] :
                     i2 \in ParserInstances,
                     l1 \in LineSeqs(ThreadLines), l2 \in LineSeqs(ThreadLines) }

\* a thread runs one iteration of "for line_num, line in enumerate(lines)"
ThreadIterate(t) ==
    LET c == threads[t]
        step == tap_iteration(instances[c.instance], c.locals,
                              c.lines[c.position], c.position)
    IN  /\ c.position <= Len(c.lines)
        /\ instances' = [instances EXCEPT ![c.instance] = step.self]
        /\ threads' = [threads EXCEPT ![t] =
                          [c EXCEPT !.locals = step.locals,
                                    !.position = c.position + 1]]
        /\ UNCHANGED <<budgetVars, encoderVars, parser, defusedxml, content,
                       input_format, parse_result>>

\* a thread leaves the loop, computes the statistics and returns
ThreadReturn(t) ==
    LET c == threads[t]
    IN  /\ c.position = Len(c.lines) + 1
        /\ c.ret = NoResult
        /\ threads' = [threads EXCEPT ![t] =
                          [c EXCEPT !.ret = Returned(tap_statistics(c.locals)),
                                    !.position = c.position + 1]]
        /\ UNCHANGED <<budgetVars, encoderVars, parser, defusedxml, content,
                       input_format, parse_result, instances>>

NextThreads == \E t \in Threads : ThreadIterate(t) \/ ThreadReturn(t)

SpecThreads == InitThreads /\ [][NextThreads]_vars

----
(* ======================= claims on the TokenBudget ===================== *)

\* the token limit a smart_truncate call works with
TokenLimitOf(c) ==
    IF c.max_tokens # None THEN TheValue(c.max_tokens)
    ELSE remaining(limit, c.before)

\* C8: over any sequence of consume and force_consume calls, consumed never
\* decreases; each call adds exactly estimate_tokens(text) >= 0 to consumed
\* and returns that amount, also when it pushes consumed past limit.
C8_BudgetMonotone ==
    [][ /\ consumed' >= consumed
        /\ (call' # call =>
              /\ call'.op \in {"consume", "force_consume"}
              /\ estimate_tokens(call'.text) >= 0
              /\ consumed' = consumed + estimate_tokens(call'.text)
              /\ call'.ret = estimate_tokens(call'.text)) ]_vars

\* a consume call with a positive cost has pushed consumed past limit
C8_Witness ==
    /\ call.op = "consume"
    /\ call.ret > 0
    /\ call.before <= limit
    /\ consumed > limit

\* C9: smart_truncate never returns a string longer than its input, for an
\* explicit max_tokens and for the default (the remaining budget).
C9_TruncateNoLonger ==
    call.op = "smart_truncate" => Len(call.ret) <= Len(call.text)

\* a text was really cut: a shorter, non-empty result ending in the ellipsis
C9_Witness ==
    /\ call.op = "smart_truncate"
    /\ Len(call.ret) > 3
    /\ Len(call.ret) < Len(call.text)
    /\ SubSeq(call.ret, Len(call.ret) - 2, Len(call.ret)) = Ellipsis

\* C10 as stated: for every non-empty text, a token limit <= 0 or with a
\* target character count below 10 (limit <= 3) yields the empty string.
C10_Original ==
    ( /\ call.op = "smart_truncate"
      /\ Len(call.text) > 0
      /\ \/ TokenLimitOf(call) <= 0
         \/ target_chars_of(TokenLimitOf(call)) < 10 )
    => call.ret = << >>

\* C10 amended: a limit <= 0 yields the empty string for every non-empty
\* text; a limit of 1..3 (target below 10 characters) yields the empty
\* string for every text that does not fit (estimate_tokens(text) > limit),
\* while a text that fits is returned unchanged.
C10_SmallTargetEmpty ==
    ( /\ call.op = "smart_truncate"
      /\ Len(call.text) > 0
      /\ \/ TokenLimitOf(call) <= 0
         \/ target_chars_of(TokenLimitOf(call)) < 10 )
    => /\ TokenLimitOf(call) \in 1..3 <=> target_chars_of(TokenLimitOf(call)) \in 1..9
       /\ IF TokenLimitOf(call) >= 1 /\ estimate_tokens(call.text) <= TokenLimitOf(call)
          THEN call.ret = call.text
          ELSE call.ret = << >>

\* a text too long for a limit of 3 tokens came back empty
C10_Witness ==
    /\ call.op = "smart_truncate"
    /\ TokenLimitOf(call) = 3
    /\ estimate_tokens(call.text) > 3
    /\ call.ret = << >>

----
(* ========================= claims on the encoders ====================== *)

\* estimate_tokens of an Optional[str] field, 0 when it is None
OptTokens(o) == IF o = None THEN 0 ELSE estimate_tokens(TheValue(o))

\* the estimated tokens of the strings of one emitted v0.1 test result
TestTokensV1(t) ==
    estimate_tokens(t.name) + OptTokens(t.error) + OptTokens(t.expected)
    + OptTokens(t.actual) + OptTokens(t.diff)

\* the estimated tokens of the strings of one emitted v0.3 test result
TestTokensV3(t) ==
    estimate_tokens(t.test_name) + OptTokens(t.expected) + OptTokens(t.actual)

\* the file entries (file path and tests) of an output tree
FileEntries(out) ==
    IF out.version = "0.1"
    THEN IF out.failures = None THEN << >>
         ELSE [i \in DOMAIN TheValue(out.failures) |->
                 [file |-> TheValue(out.failures)[i].file,
                  tests |-> TheValue(out.failures)[i].tests]]
    ELSE LET entries == SelectSeq(out.tree,
                                  LAMBDA e : e.value.kind = "failures")
         IN  [i \in DOMAIN entries |->
                 [file |-> entries[i].key, tests |-> entries[i].value.tests]]

\* the file paths emitted in summary mode
IssuePaths(out) ==
    IF out.version = "0.1"
    THEN IF out.files_with_issues = None THEN << >>
         ELSE [i \in DOMAIN TheValue(out.files_with_issues) |->
                 TheValue(out.files_with_issues)[i].file]
    ELSE LET entries == SelectSeq(out.tree, LAMBDA e : e.value.kind = "files")
         IN  IF entries = << >> THEN << >>
             ELSE [i \in DOMAIN entries[1].value.files |->
                     entries[1].value.files[i].key]

\* the number of test entries in an output tree
EmittedTests(out) ==
    SumSeq([i \in DOMAIN FileEntries(out) |-> Len(FileEntries(out)[i].tests)])

\* the sum of estimate_tokens over every emitted string of an output tree
EmittedTokens(out) ==
    SumSeq([i \in DOMAIN FileEntries(out) |->
              estimate_tokens(FileEntries(out)[i].file)
              + SumSeq([j \in DOMAIN FileEntries(out)[i].tests |->
                          IF out.version = "0.1"
                          THEN TestTokensV1(FileEntries(out)[i].tests[j])
                          ELSE TestTokensV3(FileEntries(out)[i].tests[j])])])
    + SumSeq([i \in DOMAIN IssuePaths(out) |-> estimate_tokens(IssuePaths(out)[i])])

\* encode of the encoder enc with a fresh budget of the given limit
EncodeWith(enc, lim, mode, d) ==
    IF enc = "v1" THEN encode_v1(lim, YAML_OVERHEAD, mode, d)
    ELSE encode_v3(lim, YAML_OVERHEAD, mode, d, NoProcess)

\* C1: the output tree returned by encode stays within the budget: the
\* structural overhead plus the estimated tokens of every emitted string
\* (file path, test name, error, expected, actual, diff) is at most limit.
C1_OutputWithinBudget ==
    output.status = "ok" => YAML_OVERHEAD + EmittedTokens(output) <= limit

\* C2: encode returns a tree for a zero or negative limit, and for the same
\* data and focus mode it then emits no more test entries than encode with
\* any positive limit.
C2_NonPositiveLimitMostRestrictive ==
    (output # NoOutput /\ limit <= 0) =>
        /\ output.status = "ok"
        /\ \A lim \in { l \in EncoderLimits : l > 0 } :
              EmittedTests(output)
                <= EmittedTests(EncodeWith(encoder, lim, focus_mode, parsed_data))

----
(* ======================= claims on the parsers ========================= *)

ParseDone == parse_result.status # "none"
ParseReturned == parse_result.status = "ok"

\* the content is the empty string: no line, and nothing for the XML or
\* JSON library to read
EmptyInput == content.lines = << >>

\* some / every result of the returned aggregate satisfies P
SomeResult(P(_)) ==
    \E i \in DOMAIN parse_result.data.file_results :
       \E j \in DOMAIN parse_result.data.file_results[i].test_results :
          P(parse_result.data.file_results[i].test_results[j])
EveryResult(P(_)) ==
    \A i \in DOMAIN parse_result.data.file_results :
       \A j \in DOMAIN parse_result.data.file_results[i].test_results :
          P(parse_result.data.file_results[i].test_results[j])

\* C3, as stated: for each of the four parsers parse("") does not raise and
\* returns an aggregate with total_tests = 0, no file result and
\* total_files = 0.
C3_Original ==
    (ParseDone /\ EmptyInput) =>
        /\ ParseReturned
        /\ parse_result.data.total_tests = 0
        /\ parse_result.data.file_results = << >>
        /\ parse_result.data.total_files = 0

\* C3, as the code has it: parse("") does not raise and returns
\* total_tests = 0 with no test result; the pytest parser returns no file
\* result (total_files = 0), while the JUnit, TAP and RSpec parsers return
\* one synthetic file result that holds no test (total_files = 1).
C3_EmptyInput ==
    (ParseDone /\ EmptyInput) =>
        /\ ParseReturned
        /\ parse_result.data.total_tests = 0
        /\ TallyTotal(parse_result.data.file_results) = 0
        /\ IF parser = "pytest"
           THEN /\ parse_result.data.file_results = << >>
                /\ parse_result.data.total_files = 0
           ELSE /\ Len(parse_result.data.file_results) = 1
                /\ parse_result.data.total_files = 1

C3_Witness ==
    /\ parser = "junit" /\ EmptyInput /\ ParseReturned
    /\ Len(parse_result.data.file_results) = 1

\* the parse of a JUnit content ends in an XML-level failure: the text is no
\* XML, declares entities, has a foreign root, or a non-numeric attribute
XmlFailure == content.xml.kind = "parse_error" \/ content.xml.entities
              \/ junit_exception(content.xml, FALSE) # ""

\* the aggregate is the one the JUnit text scan makes of the content
IsJUnitFallback ==
    /\ ParseReturned
    /\ \E ctx \in {<<"xml", "parse", "error">>, <<"xml", "security", "error">>,
                   <<"xml", "processing", "error">>} :
          parse_result.data = junit_parse_as_text(content.lines, ctx)

\* a JSON object with a summary object and an examples array
IsRSpecReport ==
    /\ content.json.kind = "object"
    /\ content.json.has_examples
    /\ content.json.has_summary

\* C4: RSpecParser.parse never raises; for every input that is not a JSON
\* object with a summary and an examples array it returns the text-scan
\* fallback aggregate.
C4_RSpecNeverRaises ==
    (parser = "rspec" /\ ParseDone) =>
        /\ ParseReturned
        /\ ~IsRSpecReport =>
              parse_result.data =
                 rspec_parse_as_text(content.lines, <<"json", "parse", "error">>)

\* C5: in both JUnitParser implementations parse never raises on an
\* XML-level failure and returns the text-scan fallback aggregate.
C5_JUnitNeverRaises ==
    (parser \in {"junit", "junit_legacy"} /\ ParseDone /\ XmlFailure) =>
        IsJUnitFallback

\* C6: in the aggregate any parser returns no result has passed = true
\* together with an error message, so every result is exactly one of
\* passed, failure and error.
C6_ClassificationExclusive ==
    ParseReturned =>
        EveryResult(LAMBDA t :
            /\ ~(t.passed /\ t.error_message # None)
            /\ Cardinality({ c \in {"passed", "failure", "error"} :
                               \/ c = "passed" /\ t.passed
                               \/ c = "failure" /\ is_failure(t)
                               \/ c = "error" /\ is_error(t) }) = 1)

\* a TAP run where a diagnostic is queued when a passed result arrives, and
\* ends up as the error message of the failed result after it
C6_Witness ==
    /\ parser = "tap" /\ ParseReturned
    /\ Len(content.lines) >= 2
    /\ content.lines[1].kind = "comment"
    /\ content.lines[1].words = <<"stack", "trace">>
    /\ content.lines[2].kind = "result"
    /\ SomeResult(is_passed) /\ SomeResult(is_error)

\* the counts of the aggregate were derived by tallying the results
CountsDerived ==
    \/ parser = "tap"
    \/ /\ parser = "pytest"
       /\ \A k \in DOMAIN content.lines :
             content.lines[k].kind = "summary" =>
                content.lines[k].failed + GroupOrZero(content.lines[k].passed)
                  + GroupOrZero(content.lines[k].error) = 0
    \/ parser = "junit" /\ junit_exception(content.xml, defusedxml) # ""
    \/ parser = "junit_legacy" /\ content.xml.kind = "parse_error"
    \/ parser = "rspec" /\ content.json.kind = "decode_error"

\* C7: whenever a parser derives its counts by tallying results, total =
\* passed + failed + error and each count is the number of results of that
\* class in file_results.
C7_DerivedCountsTally ==
    (ParseReturned /\ CountsDerived) =>
        LET d == parse_result.data
        IN  /\ d.total_tests = d.passed_tests + d.failed_tests + d.error_tests
            /\ d.total_tests = TallyTotal(d.file_results)
            /\ d.passed_tests = CountTests(d.file_results, is_passed)
            /\ d.failed_tests = CountTests(d.file_results, is_failure)
            /\ d.error_tests = CountTests(d.file_results, is_error)

\* a TAP run whose plan does not match: the mismatch result is tallied next
\* to a passed and a failed result
C7_Witness ==
    /\ parser = "tap" /\ ParseReturned
    /\ SomeResult(LAMBDA t : t.name = <<"test", "plan", "mismatch">>)
    /\ parse_result.data.passed_tests = 1
    /\ parse_result.data.failed_tests = 1
    /\ parse_result.data.error_tests = 1

\* the result the TAP parser recorded for the result line at position k
TapResultOf(k) ==
    parse_result.data.file_results[1].test_results[
        Cardinality({ j \in 1..k : content.lines[j].kind = "result" })]

\* the text ends with the synthetic unexpected-pass diagnostic
CarriesUnexpectedPass(o) ==
    /\ o # None
    /\ Len(TheValue(o)) >= Len(UnexpectedPass)
    /\ SubSeq(TheValue(o), Len(TheValue(o)) - Len(UnexpectedPass) + 1,
              Len(TheValue(o))) = UnexpectedPass

\* C11: whatever lines precede it, a "not ok" line with a TODO directive is
\* recorded as passed, an "ok" line with a TODO directive as a failure (not
\* passed, failure-classified, carrying the unexpected-pass diagnostic), and
\* a line with a SKIP directive as passed.
C11_TodoInversion ==
    (parser = "tap" /\ ParseReturned) =>
        \A k \in DOMAIN content.lines :
            content.lines[k].kind = "result" =>
                LET ln == content.lines[k]
                    t == TapResultOf(k)
                IN  /\ (ln.directive = "TODO" /\ ~ln.ok) => t.passed
                    /\ (ln.directive = "SKIP") => t.passed
                    /\ (ln.directive = "TODO" /\ ln.ok) =>
                          /\ ~t.passed
                          /\ is_failure(t)
                          /\ CarriesUnexpectedPass(t.actual)

\* the class of a <testcase>: in error with an <error> child, else a failure
\* with a <failure> child, else passed
TestCaseClass(c) ==
    IF c.error THEN "error" ELSE IF c.failure THEN "failure" ELSE "passed"

ResultClass(t) ==
    IF t.passed THEN "passed" ELSE IF t.error_message # None THEN "error"
    ELSE "failure"

\* the JUnit content was parsed as XML, by either implementation
JUnitParsedAsXml ==
    /\ parser \in {"junit", "junit_legacy"}
    /\ ParseReturned
    /\ junit_exception(content.xml, parser = "junit" /\ defusedxml) = ""

\* C12: for well-formed JUnit XML the total, failed and error counts are the
\* sums of the declared tests / failures / errors attributes (a missing one
\* counts 0), passed = total - failed - error whatever testcases are
\* present, and there is one file result per suite holding one test result
\* per testcase in document order.
C12_DeclaredCountsAuthoritative ==
    JUnitParsedAsXml =>
        LET d == parse_result.data
            suites == content.xml.suites
            Declared(a) == IF a.kind = "int" THEN a.value ELSE 0
        IN  /\ d.total_tests = SumSeq([i \in DOMAIN suites |-> Declared(suites[i].tests)])
            /\ d.failed_tests = SumSeq([i \in DOMAIN suites |-> Declared(suites[i].failures)])
            /\ d.error_tests = SumSeq([i \in DOMAIN suites |-> Declared(suites[i].errors)])
            /\ d.passed_tests = d.total_tests - d.failed_tests - d.error_tests
            /\ Len(d.file_results) = Len(suites)
            /\ d.total_files = Len(suites)
            /\ \A i \in DOMAIN suites :
                  /\ Len(d.file_results[i].test_results) = Len(suites[i].testcases)
                  /\ \A j \in DOMAIN suites[i].testcases :
                        ResultClass(d.file_results[i].test_results[j])
                          = TestCaseClass(suites[i].testcases[j])

\* two suites whose declared counts differ from what their testcases show:
\* 3 / 1 / 1 declared over a failed then a passed testcase, none declared
\* over a testcase in error
C12_Witness ==
    /\ JUnitParsedAsXml
    /\ Len(content.xml.suites) = 2
    /\ content.xml.suites[1].tests = IntAttr(3)
    /\ content.xml.suites[2].tests = MissingAttr
    /\ Len(content.xml.suites[1].testcases) = 2
    /\ TestCaseClass(content.xml.suites[1].testcases[1]) = "failure"
    /\ TestCaseClass(content.xml.suites[1].testcases[2]) = "passed"
    /\ Len(content.xml.suites[2].testcases) = 1
    /\ TestCaseClass(content.xml.suites[2].testcases[1]) = "error"
    /\ parse_result.data.total_tests = 3

----
(* ======================= claims on the focus modes ===================== *)

Encoded == output.status = "ok"

\* the positions of the non-passed results of a file, and the first of them
NonPassedAt(f) == { j \in DOMAIN f.test_results : ~f.test_results[j].passed }
FirstNonPassedAt(f) ==
    CHOOSE j \in NonPassedAt(f) : \A k \in NonPassedAt(f) : j <= k

\* the files of the data that hold a non-passed result, in discovery order
FilesWithNonPassed == SelectSeq(parsed_data.file_results,
                                LAMBDA f : NonPassedAt(f) # {})

\* the class the encoders print for a result
EmittedClass(t) == IF t.error_message # None THEN "error" ELSE "failure"

\* C13: in first-failure mode of the v1 encoder every entry belongs to a file
\* with n >= 1 non-passed results, holds exactly one test result, the first
\* non-passed one in discovery order, and records truncated = n - 1 when
\* n > 1 and no truncated field when n = 1.
C13_FirstFailureOnePerFile ==
    (encoder = "v1" /\ focus_mode = "first-failure" /\ Encoded) =>
        LET entries == TheValue(output.failures)
        IN  /\ Len(entries) <= Len(FilesWithNonPassed)
            /\ \A k \in DOMAIN entries :
                  LET f == FilesWithNonPassed[k]
                      n == Cardinality(NonPassedAt(f))
                      first == f.test_results[FirstNonPassedAt(f)]
                  IN  /\ entries[k].file = normalize_path(f.file_path)
                      /\ Len(entries[k].tests) = 1
                      /\ entries[k].tests[1].line = TheValue(first.line)
                      /\ entries[k].tests[1].type = EmittedClass(first)
                      /\ entries[k].truncated = IF n > 1 THEN Some(n - 1) ELSE None

\* a file whose first non-passed result is its second result, and a file
\* with two non-passed results: one test each, one elided in the second
C13_Witness ==
    /\ encoder = "v1" /\ focus_mode = "first-failure" /\ Encoded
    /\ Len(TheValue(output.failures)) = 2
    /\ TheValue(output.failures)[1].tests[1].line = 2
    /\ TheValue(output.failures)[1].truncated = None
    /\ TheValue(output.failures)[2].tests[1].line = 1
    /\ TheValue(output.failures)[2].truncated = Some(1)

\* consumed is at or below 80% of a positive limit
NoBudgetPressure == limit > 0 /\ 100 * consumed <= 80 * limit

\* the emitted tests are the non-passed results of the file f, each with its
\* class, the errors before the failures, each group in discovery order
ErrorsThenFailures(tests, f) ==
    /\ Len(tests) = Cardinality(NonPassedAt(f))
    /\ { tests[a].line : a \in DOMAIN tests } = NonPassedAt(f)
    /\ \A a \in DOMAIN tests :
          tests[a].type = EmittedClass(f.test_results[tests[a].line])
    /\ \A a, b \in DOMAIN tests :
          a < b => /\ tests[a].type = "failure" => tests[b].type = "failure"
                   /\ tests[a].type = tests[b].type => tests[a].line < tests[b].line

\* C14: in failures mode of the v1 encoder, with consumed at or below 80% of
\* the limit, every non-passed result of every file is emitted, the files in
\* discovery order, and within a file the errors before the failures, each
\* group in discovery order.
C14_FailuresModeComplete ==
    (encoder = "v1" /\ focus_mode = "failures" /\ Encoded /\ NoBudgetPressure) =>
        LET entries == TheValue(output.failures)
        IN  /\ Len(entries) = Len(FilesWithNonPassed)
            /\ \A k \in DOMAIN entries :
                  /\ entries[k].file = normalize_path(FilesWithNonPassed[k].file_path)
                  /\ ErrorsThenFailures(entries[k].tests, FilesWithNonPassed[k])

\* two files under a limit of 63: the first holds a failure then an error,
\* emitted as the error (line 2) then the failure (line 1)
C14_Witness ==
    /\ encoder = "v1" /\ focus_mode = "failures" /\ Encoded
    /\ limit = 63
    /\ Len(TheValue(output.failures)) = 2
    /\ Len(TheValue(output.failures)[1].tests) = 2
    /\ TheValue(output.failures)[1].tests[1].type = "error"
    /\ TheValue(output.failures)[1].tests[1].line = 2
    /\ TheValue(output.failures)[1].tests[2].type = "failure"

\* the positions of the error-classified results of a file
ErrorsAt(f) ==
    { j \in DOMAIN f.test_results :
        ~f.test_results[j].passed /\ f.test_results[j].error_message # None }

\* the files of the data that hold an error-classified result, in order
FilesWithErrors == SelectSeq(parsed_data.file_results, LAMBDA f : ErrorsAt(f) # {})

\* an emitted test is labelled as an error, in either output schema
LabelledError(t) ==
    IF output.version = "0.1" THEN t.type = "error"
    ELSE t.description = ErrorOccurred

\* the files an entry of the output can come from in critical mode: those
\* with the entry's path that hold every emitted line as an error
CriticalOwners(entry) ==
    { i \in DOMAIN parsed_data.file_results :
        /\ normalize_path(parsed_data.file_results[i].file_path) = entry.file
        /\ ErrorsAt(parsed_data.file_results[i]) # {}
        /\ \A a \in DOMAIN entry.tests :
              entry.tests[a].line \in ErrorsAt(parsed_data.file_results[i]) }

\* C15: in critical mode, in both encoders and for every budget, every
\* emitted test result is error-classified, the results are grouped under
\* their own file in discovery order, and a file without an error-classified
\* result gets no entry.
C15_CriticalOnlyErrors ==
    (focus_mode = "critical" /\ Encoded) =>
        LET entries == FileEntries(output)
        IN  /\ \A k \in DOMAIN entries :
                  /\ CriticalOwners(entries[k]) # {}
                  /\ entries[k].tests # << >>
                  /\ \A a \in DOMAIN entries[k].tests :
                        LabelledError(entries[k].tests[a])
                  /\ \A a, b \in DOMAIN entries[k].tests :
                        a < b => entries[k].tests[a].line < entries[k].tests[b].line
            /\ \A k, m \in DOMAIN entries :
                  k < m => \E i \in CriticalOwners(entries[k]),
                              j \in CriticalOwners(entries[m]) : i < j

\* the v3 encoder in critical mode over a first file without errors and a
\* second file holding a failure and then an error: one entry, one test
C15_Witness ==
    /\ encoder = "v3" /\ focus_mode = "critical" /\ Encoded
    /\ Len(parsed_data.file_results) = 2
    /\ NonPassedAt(parsed_data.file_results[1]) # {}
    /\ ErrorsAt(parsed_data.file_results[1]) = {}
    /\ ErrorsAt(parsed_data.file_results[2]) = {2}
    /\ NonPassedAt(parsed_data.file_results[2]) = {1, 2}
    /\ Len(FileEntries(output)) = 1
    /\ FileEntries(output)[1].tests[1].line = 2

\* what an output tree selects: per file entry the path, the lines of the
\* emitted tests in order, and the elided count it records (None when the
\* entry carries none)
Selection(out) ==
    IF out.version = "0.1"
    THEN IF out.failures = None THEN << >>
         ELSE
         [i \in DOMAIN TheValue(out.failures) |->
            [file |-> TheValue(out.failures)[i].file,
             lines |-> [a \in DOMAIN TheValue(out.failures)[i].tests |->
                          TheValue(out.failures)[i].tests[a].line],
             elided |-> TheValue(out.failures)[i].truncated]]
    ELSE [i \in DOMAIN FileEntries(out) |->
            [file |-> FileEntries(out)[i].file,
             lines |-> [a \in DOMAIN FileEntries(out)[i].tests |->
                          FileEntries(out)[i].tests[a].line],
             elided |-> None]]

\* C16: for every data, every focus mode among critical, failures and
\* first-failure, and every limit, the v3 encoder selects the same files in
\* the same order, the same test results per file in the same order, and
\* records the same elided count per file, as the v1 encoder.
C16_V3SelectsAsV1 ==
    (/\ encoder = "v3" /\ Encoded
     /\ focus_mode \in {"critical", "failures", "first-failure"}) =>
        Selection(output)
          = Selection(encode_v1(limit, consumed, focus_mode, parsed_data))

\* the context block of a v3 output tree, and its optional fields
ContextBlock == output.tree[1].value.context
OptionalFields == {"package_manager", "vcs", "environment", "flags",
                   "project_type"}

\* the value the encoder's process holds for an optional context field
HasValue(field) ==
    CASE field = "package_manager" -> process.pip \notin {None, Some(<< >>)}
      [] field = "vcs" -> process.git \notin {None, Some(<< >>)}
      [] field = "environment" ->
            \E t \in DOMAIN ENVIRONMENT_MAPPINGS :
                \E i \in DOMAIN ENVIRONMENT_MAPPINGS[t] :
                    DictHas(process.environ, ENVIRONMENT_MAPPINGS[t][i])
      [] field = "flags" ->
            \E f \in DOMAIN FLAG_MAPPINGS :
                \E i \in DOMAIN process.command :
                    process.command[i] \in FLAG_MAPPINGS[f]
      [] field = "project_type" -> process.project_type # << >>

----
(* ===================== claims on format detection ===================== *)

\* the content as the claim reads it: trimmed, case folded
Trimmed == Strip([i \in DOMAIN content.text |-> LowerToken(content.text[i])])

\* the format the first matching rule gives
FirstMatch ==
    IF Trimmed # << >> /\ Trimmed[1] = "<?xml"
       /\ \E i \in DOMAIN Trimmed : Trimmed[i] = "<testsuite"
    THEN "junit"
    ELSE IF Trimmed # << >> /\ Trimmed[1] \in {"1..", "tap version"}
    THEN "tap"
    ELSE IF content.json.kind = "object"
            /\ content.json.has_examples /\ content.json.has_summary
    THEN "rspec"
    ELSE "pytest"

\* C18: detect_format never raises: for every content it returns exactly
\* one of the four parser tags, never AUTO, decided by first match in the
\* order XML declaration with a test-suite tag -> JUnit, TAP plan line or
\* version marker -> TAP, JSON object holding both examples and summary ->
\* RSpec, else pytest; a failed JSON parse is swallowed.
C18_DetectFormatTotal ==
    input_format # NoResult =>
        /\ input_format.status = "ok"
        /\ input_format.data \in {"junit", "tap", "rspec", "pytest"}
        /\ input_format.data = FirstMatch

----
(* ====================== claims on concurrent calls ===================== *)

----
(* ===================== claims on budget exhaustion ===================== *)

\* C20: budget exhaustion stops emission in every mode of both encoders:
\* the unit emitted when exhaustion is detected is kept and nothing follows
\* it, so a budget already exhausted when encode starts yields at most one
\* file entry, containing at most one test.
C20_ExhaustedAtStartOneUnit ==
    (Encoded /\ ~has_budget(limit, consumed)) =>
        /\ Len(FileEntries(output)) <= 1
        /\ \A i \in DOMAIN FileEntries(output) :
              Len(FileEntries(output)[i].tests) <= 1
        /\ Len(IssuePaths(output)) <= 1

----
(* ================== claims on the v1 encoder's details ================= *)

\* C21: in failures mode of the v1 encoder, whenever more than 80% of the
\* limit is consumed (consumed > 0.8 * limit) after a test is appended, no
\* further test of that file is emitted: each file with non-passed results
\* contributes exactly one test entry, and every later file with non-passed
\* results gets its entry as long as has_budget() holds.
C21_MajorityConsumedOneTestPerFile ==
    (/\ encoder = "v1" /\ focus_mode = "failures" /\ Encoded
     /\ 100 * consumed > 80 * limit) =>
        LET entries == FileEntries(output)
        IN  /\ \A k \in DOMAIN entries : Len(entries[k].tests) = 1
            /\ has_budget(limit, consumed) =>
                   /\ Len(entries) = Len(FilesWithNonPassed)
                   /\ \A k \in DOMAIN entries :
                          entries[k].file
                            = normalize_path(FilesWithNonPassed[k].file_path)

\* the estimated tokens of an optional emitted field stay within a sub-budget
FieldWithin(field, tokens) ==
    field # None => estimate_tokens(TheValue(field)) <= tokens

\* C22: in every test result emitted by the v1 encoder, in every focus mode
\* and for every remaining budget, the name costs at most 30 estimated
\* tokens, the error text at most 50, and expected and actual at most 25
\* each.
C22_FieldSubBudgets ==
    (encoder = "v1" /\ Encoded) =>
        \A i \in DOMAIN FileEntries(output) :
            \A j \in DOMAIN FileEntries(output)[i].tests :
                LET t == FileEntries(output)[i].tests[j]
                IN  /\ estimate_tokens(t.name) <= 30
                    /\ FieldWithin(t.error, 50)
                    /\ FieldWithin(t.expected, 25)
                    /\ FieldWithin(t.actual, 25)

----
(* ==================== claims on the TAP parser's plan ================== *)

\* the positions of the plan lines and of the result lines of the content
PlanLinesAt == { k \in DOMAIN content.lines : content.lines[k].kind = "plan" }
ResultLinesAt == { k \in DOMAIN content.lines : content.lines[k].kind = "result" }

\* the count of the plan line in force, the last one
DeclaredCount ==
    content.lines[CHOOSE k \in PlanLinesAt : \A j \in PlanLinesAt : j <= k].count

IsPlanMismatch(t) ==
    /\ t.name = <<"test", "plan", "mismatch">>
    /\ ~t.passed
    /\ t.error_message # None

\* C23: after TAP processing exactly one synthetic error result (not
\* passed, with an error message describing the mismatch) is appended, and
\* total_tests and error_tests each grow by one, if and only if a plan line
\* was declared and its count differs from the number of result lines
\* parsed; otherwise nothing is appended.
C23_PlanMismatchIff ==
    (parser = "tap" /\ ParseReturned) =>
        LET results == parse_result.data.file_results[1].test_results
            parsed == Cardinality(ResultLinesAt)
            counted == [k \in DOMAIN results |->
                           IF k <= parsed /\ is_error(results[k]) THEN 1 ELSE 0]
        IN  IF PlanLinesAt # {} /\ DeclaredCount # parsed
            THEN /\ Len(results) = parsed + 1
                 /\ IsPlanMismatch(results[parsed + 1])
                 /\ parse_result.data.total_tests = parsed + 1
                 /\ parse_result.data.error_tests = SumSeq(counted) + 1
            ELSE /\ Len(results) = parsed
                 /\ parse_result.data.total_tests = parsed
                 /\ parse_result.data.error_tests = SumSeq(counted)

----
(* ================ claims on the TAP parser's diagnostics =============== *)

\* the result line at position k is recorded as not passed
RecordedNotPassed(k) == ~TapResultOf(k).passed

\* the diagnostics queued when the result line at position k is processed:
\* the comment lines that are neither file nor directive comments, after the
\* last result line recorded as not passed, in line order, and the
\* diagnostic the result line itself queues
RECURSIVE QueuedBefore(_)
QueuedBefore(k) ==
    IF k = 0 THEN << >>
    ELSE LET ln == content.lines[k]
         IN  IF ln.kind = "result" /\ RecordedNotPassed(k) THEN << >>
             ELSE IF /\ ln.kind = "comment" /\ ln.file = None
                     /\ ln.words # << >>
                     /\ ln.words[1] \notin {"skip", "todo", "fixme"}
             THEN Append(QueuedBefore(k - 1), ln.words)
             ELSE QueuedBefore(k - 1)
QueuedAt(k) ==
    IF content.lines[k].directive = "TODO" /\ content.lines[k].ok
    THEN Append(QueuedBefore(k - 1), UnexpectedPass)
    ELSE QueuedBefore(k - 1)

Bare(t) == t.error_message = None /\ t.expected = None /\ t.actual = None

----
(* ================= claims on the pytest parser's summary =============== *)

\* the positions of the summary lines and of the per-test outcome lines
SummaryLinesAt ==
    { k \in DOMAIN content.lines : content.lines[k].kind = "summary" }
OutcomeLinesAt ==
    { k \in DOMAIN content.lines : content.lines[k].kind = "outcome" }

\* the summary line in force, the last one
TheSummary ==
    content.lines[CHOOSE k \in SummaryLinesAt : \A j \in SummaryLinesAt : j <= k]

\* C25: whenever the console log holds a line matching the summary pattern,
\* the pytest parser's counts are the summary's counts (failed, passed and
\* error as stated, total their sum) however many FAILED / ERROR / PASSED
\* lines were parsed; and when the summary's total is positive and no
\* per-test line was found, one placeholder result per counted outcome is
\* made, with the matching classification.
C25_SummaryAuthoritative ==
    (parser = "pytest" /\ ParseReturned /\ SummaryLinesAt # {}) =>
        LET d == parse_result.data
            stated_failed == TheSummary.failed
            stated_passed == GroupOrZero(TheSummary.passed)
            stated_error == GroupOrZero(TheSummary.error)
            stated_total == stated_failed + stated_passed + stated_error
        IN  /\ d.failed_tests = stated_failed
            /\ d.passed_tests = stated_passed
            /\ d.error_tests = stated_error
            /\ d.total_tests = stated_total
            /\ (stated_total > 0 /\ OutcomeLinesAt = {}) =>
                  /\ Len(d.file_results) = 1
                  /\ Len(d.file_results[1].test_results) = stated_total
                  /\ TallyFailed(d.file_results) = stated_failed
                  /\ TallyError(d.file_results) = stated_error
                  /\ TallyPassed(d.file_results) = stated_passed

----
(* ==================== claims on the estimation model =================== *)

\* C26: estimate_tokens returns 0 only for the empty text and at least 1
\* for a non-empty one, and the structural punctuation adjusts the estimate
\* downward: for every non-empty text the estimate charged by a consume
\* call is at most max(1, floor(len(trimmed text) / CHARS_PER_TOKEN)).
C26_EstimateModel ==
    call.op \in {"consume", "force_consume"} =>
        /\ call.ret = estimate_tokens(call.text)
        /\ (call.ret = 0 <=> Len(call.text) = 0)
        /\ (Len(call.text) > 0 =>
              /\ call.ret >= 1
              /\ call.ret <= Max(1, Len(Strip(call.text)) \div CHARS_PER_TOKEN))

\* C30: the result of smart_truncate fits the target it was given: for
\* every text and every explicit max_tokens >= 1,
\* estimate_tokens(smart_truncate(text, max_tokens)) <= max_tokens.
C30_TruncateFitsTarget ==
    ( /\ call.op = "smart_truncate"
      /\ call.max_tokens # None
      /\ TheValue(call.max_tokens) >= 1 )
    => estimate_tokens(call.ret) <= TheValue(call.max_tokens)

----
(* ================= claims on the parsers' aggregates =================== *)

\* C29: in every aggregate returned by a parser all four counts are
\* non-negative and none of passed, failed and error exceeds total; the
\* passed count total - failed - error of the JUnit and RSpec parsers is
\* never negative.
C29_CountsWithinTotal ==
    ParseReturned =>
        LET d == parse_result.data
        IN  /\ d.total_tests >= 0
            /\ d.passed_tests >= 0
            /\ d.failed_tests >= 0
            /\ d.error_tests >= 0
            /\ d.passed_tests <= d.total_tests
            /\ d.failed_tests <= d.total_tests
            /\ d.error_tests <= d.total_tests

----
(* ===================== claims on parse then encode ===================== *)

\* C27: the v1 output of a parsed input is self-consistent between summary
\* and detail: when summary.status is PASS (failed = 0 and errors = 0) no
\* failure entry is emitted, and summary.files.with_failures > 0 implies
\* that the status is FAIL or ERROR.
C27_SummaryMatchesDetail ==
    (encoder = "v1" /\ ParseReturned /\ Encoded) =>
        /\ (output.summary.status = "PASS" <=>
              output.summary.tests.failed = 0 /\ output.summary.tests.errors = 0)
        /\ (output.summary.status = "PASS" =>
              /\ FileEntries(output) = << >>
              /\ IssuePaths(output) = << >>)
        /\ (output.summary.files.with_failures > 0 =>
              output.summary.status \in {"FAIL", "ERROR"})

----
(* ================= claims on the v0.3 tree's file keys ================= *)

\* the results of a file the v3 encoder selects in the mode at hand
V3Results(f) ==
    LET failed_tests == SelectSeq(f.test_results, not_passed)
    IN  IF focus_mode = "critical" THEN SelectSeq(failed_tests, is_error)
        ELSE IF focus_mode = "first-failure"
        THEN SubSeq(failed_tests, 1, Min(1, Len(failed_tests)))
        ELSE failed_tests

\* the files for which the v3 encoder emits results: those with a selected
\* result, up to the first one when the budget is exhausted
V3EmittedFiles ==
    LET fs == SelectSeq(parsed_data.file_results,
                        LAMBDA f : V3Results(f) # << >>)
    IN  IF has_budget(limit, consumed) THEN fs
        ELSE SubSeq(fs, 1, Min(1, Len(fs)))

\* the per-file issue entries of a summary tree
V3IssueEntries ==
    LET entries == SelectSeq(output.tree, LAMBDA e : e.value.kind = "files")
    IN  IF entries = << >> THEN << >> ELSE entries[1].value.files

\* C28: every file for which the v3 encoder emitted results keeps its own
\* entry in the output tree: two distinct file results never collapse into
\* one key (a later file never overwrites an earlier file's failures or
\* issue string), and no file entry replaces the EXECUTION_CONTEXT block.
C28_FilesKeepOwnEntries ==
    (encoder = "v3" /\ Encoded) =>
        /\ output.tree[1].key = ExecutionContextKey
        /\ output.tree[1].value.kind = "context"
        /\ IF focus_mode = "summary"
           THEN /\ Len(V3IssueEntries) = Len(V3EmittedFiles)
                /\ \A k \in DOMAIN V3IssueEntries :
                      /\ V3IssueEntries[k].key
                           = normalize_path(V3EmittedFiles[k].file_path)
                      /\ V3IssueEntries[k].value
                           = [failed |-> failure_count(V3EmittedFiles[k]),
                              errors |-> error_count(V3EmittedFiles[k])]
           ELSE /\ Len(output.tree) = 1 + Len(V3EmittedFiles)
                /\ \A k \in DOMAIN V3EmittedFiles :
                      /\ output.tree[k + 1].key
                           = normalize_path(V3EmittedFiles[k].file_path)
                      /\ output.tree[k + 1].value.kind = "failures"
                      /\ output.tree[k + 1].value.tests[1].line
                           = LineOrZero(V3Results(V3EmittedFiles[k])[1])

====
